---- MODULE Spec2Model ----
(***************************************************************************)
(* FitSync API gateway: requests travel one after another through the     *)
(* express chain of index.js: body parser, correlation id, rate limiter,   *)
(* soft authentication (verifyToken), then the health check, a dashboard   *)
(* aggregation, the validated booking, a proxied backend or the 404 and    *)
(* error handlers.                                                         *)
(***************************************************************************)
EXTENDS Integers, Sequences, FiniteSets, TLC

VARIABLES now, req, pc, res, nextLog, calls, today, backends,
          env, limiter, hits, upstream, workload, resHeaders, parked

vars == <<now, req, pc, res, nextLog, calls, today, backends,
          env, limiter, hits, upstream, workload, resHeaders, parked>>

(***************************************************************************)
(* Bounds of the model.                                                    *)
(***************************************************************************)
\* the clock runs from 0 to MaxNow (abstract ticks)
MaxNow == 2

\* requests of one client followed within one window of the limiter
MaxHits == 3

(***************************************************************************)
(* JavaScript values.  Every value carries its type tag; property access   *)
(* on undefined or null throws a TypeError, as in the runtime.             *)
(***************************************************************************)
UNDEF == [t |-> "undefined"]
NULL == [t |-> "null"]
TypeError == [t |-> "TypeError"]
RangeError == [t |-> "RangeError"]
Bool(b) == [t |-> "boolean", b |-> b]
Num(n) == [t |-> "number", n |-> n]
Str(s) == [t |-> "string", s |-> s]
\* a string kept character by character (the Authorization header)
Chars(c) == [t |-> "string", chars |-> c]
\* an ISO timestamp string produced by new Date().toISOString()
IsoTime(n) == [t |-> "string", iso |-> n]
Arr(a) == [t |-> "array", a |-> a]
Obj(o) == [t |-> "object", o |-> o]
EmptyObj == Obj(<<>>)

\* the number NaN
NaN == [t |-> "NaN"]

SyntaxError == [t |-> "SyntaxError"]

\* the rejection of an axios call: error.response is the backend's answer,
\* absent when none came
AxiosError(response) == [t |-> "AxiosError", response |-> response]

IsThrown(v) == v.t \in {"TypeError", "RangeError", "SyntaxError", "AxiosError"}

IsEmptyString(v) ==
  /\ v.t = "string"
  /\ \/ "s" \in DOMAIN v /\ v.s = ""
     \/ "chars" \in DOMAIN v /\ v.chars = <<>>

\* ToBoolean: undefined, null, false, 0, NaN and "" are falsy
Truthy(v) ==
  CASE v.t \in {"undefined", "null", "NaN"} -> FALSE
    [] v.t = "boolean" -> v.b
    [] v.t = "number" -> v.n # 0
    [] v.t = "string" -> ~IsEmptyString(v)
    [] OTHER -> TRUE

\* v.k : member access
Get(v, k) ==
  CASE IsThrown(v) -> v
    [] v.t \in {"undefined", "null"} -> TypeError
    [] v.t = "object" -> IF k \in DOMAIN v.o THEN v.o[k] ELSE UNDEF
    [] v.t = "array" -> IF k = "length" THEN Num(Len(v.a)) ELSE UNDEF
    [] OTHER -> UNDEF

\* v?.k : optional chaining
OptGet(v, k) ==
  CASE IsThrown(v) -> v
    [] v.t \in {"undefined", "null"} -> UNDEF
    [] OTHER -> Get(v, k)

\* a || b
OrElse(a, b) == IF IsThrown(a) THEN a ELSE IF Truthy(a) THEN a ELSE b

\* JSON.stringify as res.json applies it: a property whose value is undefined
\* is dropped from its object, an undefined array element becomes null
RECURSIVE Serialize(_)
Serialize(v) ==
  CASE v.t = "object" ->
         LET keep == {k \in DOMAIN v.o : v.o[k].t # "undefined"}
         IN  Obj([k \in keep |-> Serialize(v.o[k])])
    [] v.t = "array" ->
         Arr([i \in 1..Len(v.a) |->
                IF v.a[i].t = "undefined" THEN NULL ELSE Serialize(v.a[i])])
    [] OTHER -> v

(***************************************************************************)
(* Bearer credentials.  A signed token is one opaque symbol of the header  *)
(* text; TokenTable says how each was signed and what it carries.          *)
(***************************************************************************)
JWT_SECRET == "gateway-secret"
ISSUER == "fitsync-user-service"
AUDIENCE == "fitsync-api"

\* an expiry no run of the model reaches
FarExp == MaxNow + 5

Claims(id, iss, aud, exp) ==
  [id |-> Str(id), iss |-> Str(iss), aud |-> Str(aud), iat |-> Num(0), exp |-> Num(exp)]

\* a token signed without expiresIn carries no exp claim
ClaimsNoExp(id, iss, aud) ==
  [id |-> Str(id), iss |-> Str(iss), aud |-> Str(aud), iat |-> Num(0)]

Signed(secret, claims) == [secret |-> secret, payload |-> Obj(claims)]

WithRole(role, claims) == [role |-> Str(role)] @@ claims

TokenTable ==
  [ tClientU1  |-> Signed(JWT_SECRET, WithRole("client", Claims("u1", ISSUER, AUDIENCE, FarExp))),
    tClientU2  |-> Signed(JWT_SECRET, WithRole("client", Claims("u2", ISSUER, AUDIENCE, FarExp))),
    tTrainerU1 |-> Signed(JWT_SECRET, [gym_id |-> Str("gym-1")] @@
                            WithRole("trainer", Claims("u1", ISSUER, AUDIENCE, FarExp))),
    tTrainerU2 |-> Signed(JWT_SECRET, WithRole("trainer", Claims("u2", ISSUER, AUDIENCE, FarExp))),
    tAdminU2   |-> Signed(JWT_SECRET, WithRole("admin", ClaimsNoExp("u2", ISSUER, AUDIENCE))),
    tNoRoleU1  |-> Signed(JWT_SECRET, Claims("u1", ISSUER, AUDIENCE, FarExp)),
    tManagerU1 |-> Signed(JWT_SECRET, WithRole("manager", Claims("u1", ISSUER, AUDIENCE, FarExp))),
    tShortU1   |-> Signed(JWT_SECRET, WithRole("client", Claims("u1", ISSUER, AUDIENCE, 1))),
    tExpired   |-> Signed(JWT_SECRET, WithRole("admin", Claims("u1", ISSUER, AUDIENCE, 0))),
    tBadSig    |-> Signed("forged-secret", WithRole("admin", Claims("u1", ISSUER, AUDIENCE, FarExp))),
    tWrongIss  |-> Signed(JWT_SECRET, WithRole("admin", Claims("u1", "other-issuer", AUDIENCE, FarExp))),
    tWrongAud  |-> Signed(JWT_SECRET, WithRole("admin", Claims("u1", ISSUER, "other-api", FarExp))) ]

TokenNames == DOMAIN TokenTable

BearerPrefix == <<"B", "e", "a", "r", "e", "r", " ">>

\* String.prototype.startsWith
StartsWith(h, p) == Len(h) >= Len(p) /\ SubSeq(h, 1, Len(p)) = p

\* String.prototype.substring(n)
Substring(h, n) == SubSeq(h, n + 1, Len(h))

\* the audience option left out of the call
jwtVerifyNoAudience(token, secret, issuer, audience, t) ==
  IF Len(token) # 1 \/ token[1] \notin TokenNames
  THEN [ok |-> FALSE, error |-> "jwt malformed"]
  ELSE LET tk == TokenTable[token[1]]
           p == tk.payload
       IN  CASE tk.secret # secret -> [ok |-> FALSE, error |-> "invalid signature"]
             [] Get(p, "exp").t # "undefined" /\ t >= Get(p, "exp").n -> [ok |-> FALSE, error |-> "jwt expired"]
             [] Get(p, "iss") # Str(issuer) -> [ok |-> FALSE, error |-> "jwt issuer invalid"]
             [] OTHER -> [ok |-> TRUE, decoded |-> p]

\* jwt.verify(token, secret, {issuer, audience}) at clock reading t: the
\* decoded claim set, or the failure it throws
jwtVerify(token, secret, issuer, audience, t) ==
  IF Len(token) # 1 \/ token[1] \notin TokenNames
  THEN [ok |-> FALSE, error |-> "jwt malformed"]
  ELSE LET tk == TokenTable[token[1]]
           p == tk.payload
       IN  CASE tk.secret # secret -> [ok |-> FALSE, error |-> "invalid signature"]
             [] Get(p, "exp").t # "undefined" /\ t >= Get(p, "exp").n -> [ok |-> FALSE, error |-> "jwt expired"]
             [] Get(p, "aud") # Str(audience) -> [ok |-> FALSE, error |-> "jwt audience invalid"]
             [] Get(p, "iss") # Str(issuer) -> [ok |-> FALSE, error |-> "jwt issuer invalid"]
             [] OTHER -> [ok |-> TRUE, decoded |-> p]

\* the early `return` lost: the header-less path falls through to the
\* second next()
verifyTokenNoReturn(r, t) ==
  LET authHeader == r.authorization
  IN  IF ~Truthy(authHeader) \/ ~StartsWith(authHeader.chars, BearerPrefix)
      THEN [user |-> r.user, nexts |-> 2, sent |-> 0, outcome |-> "skipped"]
      ELSE LET token == Substring(authHeader.chars, 7)
               v == jwtVerify(token, JWT_SECRET, ISSUER, AUDIENCE, t)
           IN  IF v.ok
               THEN [user |-> v.decoded, nexts |-> 1, sent |-> 0, outcome |-> "verified"]
               ELSE [user |-> r.user, nexts |-> 1, sent |-> 0, outcome |-> "failed"]

\* the catch block clearing req.user: a failed verification takes away
\* the identity an earlier application attached
verifyTokenClearing(r, t) ==
  LET authHeader == r.authorization
  IN  IF ~Truthy(authHeader) \/ ~StartsWith(authHeader.chars, BearerPrefix)
      THEN [user |-> r.user, nexts |-> 1, sent |-> 0, outcome |-> "skipped"]
      ELSE LET token == Substring(authHeader.chars, 7)
               v == jwtVerify(token, JWT_SECRET, ISSUER, AUDIENCE, t)
           IN  IF v.ok
               THEN [user |-> v.decoded, nexts |-> 1, sent |-> 0, outcome |-> "verified"]
               ELSE [user |-> UNDEF, nexts |-> 1, sent |-> 0, outcome |-> "failed"]

\* verifyToken(req, res, next): what one application does to req.user, how
\* often it calls next() and how many responses it sends
verifyToken(r, t) ==
  LET authHeader == r.authorization
  IN  IF ~Truthy(authHeader) \/ ~StartsWith(authHeader.chars, BearerPrefix)
      THEN [user |-> r.user, nexts |-> 1, sent |-> 0, outcome |-> "skipped"]
      ELSE LET token == Substring(authHeader.chars, 7)
               v == jwtVerify(token, JWT_SECRET, ISSUER, AUDIENCE, t)
           IN  IF v.ok
               THEN [user |-> v.decoded, nexts |-> 1, sent |-> 0, outcome |-> "verified"]
               ELSE [user |-> r.user, nexts |-> 1, sent |-> 0, outcome |-> "failed"]

(***************************************************************************)
(* Dates.  The clock counts ticks; a calendar day is TicksPerDay ticks.    *)
(***************************************************************************)
TicksPerDay == 2

\* the 'YYYY-MM-DD' string of day d
IsoDate(d) == [t |-> "string", date |-> d]

InvalidDate == [t |-> "date", valid |-> FALSE]
DateAt(n) == [t |-> "date", valid |-> TRUE, time |-> n]

\* new Date(v)
NewDate(v) ==
  CASE v.t = "string" /\ "date" \in DOMAIN v -> DateAt(v.date * TicksPerDay)
    [] v.t = "string" /\ "iso" \in DOMAIN v -> DateAt(v.iso)
    [] v.t = "number" -> DateAt(v.n)
    [] v.t = "null" -> DateAt(0)
    [] OTHER -> InvalidDate

\* Date.prototype.toISOString: throws on an invalid date
ToISOString(d) == IF d.valid THEN IsoTime(d.time) ELSE RangeError

\* iso.split('T')[0]
DatePart(iso) == IsoDate(iso.iso \div TicksPerDay)

\* new Date().toISOString() at clock reading t
Timestamp(t) == ToISOString(NewDate(Num(t)))

(***************************************************************************)
(* Responses the gateway writes.                                           *)
(***************************************************************************)
NoResponse == [sent |-> 0, status |-> 200, body |-> UNDEF]

\* res.status(code).json(body)
Send(r, code, body) == [sent |-> r.sent + 1, status |-> code, body |-> Serialize(body)]

\* the headers of the response that the gateway sets itself
HeaderNames == {"X-Correlation-ID", "RateLimit-Limit", "RateLimit-Remaining", "RateLimit-Reset"}

NoHeaders == [h \in HeaderNames |-> UNDEF]

\* res.setHeader(name, value)
SetHeader(h, name, value) == [h EXCEPT ![name] = value]

ErrorEnvelope(code, message) ==
  Obj([success |-> Bool(FALSE),
       error |-> Obj([code |-> Str(code), message |-> Str(message)])])

SuccessEnvelope(data, t) ==
  Obj([success |-> Bool(TRUE), data |-> Obj(data), timestamp |-> Timestamp(t)])

DashboardError == ErrorEnvelope("DASHBOARD_ERROR", "Failed to load dashboard")

InvalidTrainer == ErrorEnvelope("INVALID_TRAINER", "Invalid trainer ID")

BookingFailed == ErrorEnvelope("BOOKING_FAILED", "Failed to create booking")

\* a path as the text req.path holds
PathText(p) == [t |-> "string", path |-> p]

\* the body onError writes
ServiceUnavailable(t) ==
  Obj([success |-> Bool(FALSE),
       error |-> Obj([code |-> Str("SERVICE_UNAVAILABLE"),
                      message |-> Str("The requested service is temporarily unavailable"),
                      timestamp |-> Timestamp(t)])])

\* the body of the 404 handler
NotFoundEnvelope(path, t) ==
  Obj([success |-> Bool(FALSE),
       error |-> Obj([code |-> Str("NOT_FOUND"), message |-> Str("Endpoint not found"),
                      path |-> PathText(path), timestamp |-> Timestamp(t)])])

\* the body of the error handler
InternalError(correlationId, t) ==
  Obj([success |-> Bool(FALSE),
       error |-> Obj([code |-> Str("INTERNAL_ERROR"),
                      message |-> Str("An unexpected error occurred"),
                      correlationId |-> correlationId, timestamp |-> Timestamp(t)])])

\* the body of GET /health
Healthy(t) ==
  Obj([status |-> Str("healthy"), service |-> Str("api-gateway"), timestamp |-> Timestamp(t),
       services |-> Obj([user |-> Str("user"), training |-> Str("training"),
                         schedule |-> Str("schedule"), progress |-> Str("progress"),
                         notification |-> Str("notification")])])

(***************************************************************************)
(* The rate limiter, built once from process.env when the module loads.    *)
(***************************************************************************)
DefaultWindowMs == 60000
DefaultMax == 1000

Digits == {"0", "1", "2", "3", "4", "5", "6", "7", "8", "9"}

DigitValue ==
  ("0" :> 0) @@ ("1" :> 1) @@ ("2" :> 2) @@ ("3" :> 3) @@ ("4" :> 4) @@
  ("5" :> 5) @@ ("6" :> 6) @@ ("7" :> 7) @@ ("8" :> 8) @@ ("9" :> 9)

\* the longest prefix of c made of decimal digits
LeadingDigits(c) ==
  LET n == CHOOSE k \in 0..Len(c) :
             /\ \A i \in 1..k : c[i] \in Digits
             /\ k = Len(c) \/ c[k + 1] \notin Digits
  IN  SubSeq(c, 1, n)

RECURSIVE Decimal(_)
Decimal(d) ==
  IF d = <<>> THEN 0
  ELSE 10 * Decimal(SubSeq(d, 1, Len(d) - 1)) + DigitValue[d[Len(d)]]

HexValue ==
  DigitValue @@
  ("a" :> 10) @@ ("b" :> 11) @@ ("c" :> 12) @@ ("d" :> 13) @@ ("e" :> 14) @@ ("f" :> 15) @@
  ("A" :> 10) @@ ("B" :> 11) @@ ("C" :> 12) @@ ("D" :> 13) @@ ("E" :> 14) @@ ("F" :> 15)

\* the longest prefix of c made of hexadecimal digits
LeadingHex(c) ==
  LET n == CHOOSE k \in 0..Len(c) :
             /\ \A i \in 1..k : c[i] \in DOMAIN HexValue
             /\ k = Len(c) \/ c[k + 1] \notin DOMAIN HexValue
  IN  SubSeq(c, 1, n)

RECURSIVE Hexadecimal(_)
Hexadecimal(d) ==
  IF d = <<>> THEN 0
  ELSE 16 * Hexadecimal(SubSeq(d, 1, Len(d) - 1)) + HexValue[d[Len(d)]]

WhiteSpace == {" ", "\t", "\n"}

\* the text without its leading white space
TrimStart(c) ==
  LET n == CHOOSE k \in 0..Len(c) :
             /\ \A i \in 1..k : c[i] \in WhiteSpace
             /\ k = Len(c) \/ c[k + 1] \notin WhiteSpace
  IN  SubSeq(c, n + 1, Len(c))

\* parseInt(v) without a radix: leading white space and one sign are
\* skipped, a 0x prefix selects base 16, and the longest run of digits
\* that follows is the value; NaN when there is no digit.  What comes
\* after the digits is ignored.
ParseInt(v) ==
  IF v.t = "string" /\ "chars" \in DOMAIN v
  THEN LET text == TrimStart(v.chars)
           signed == text # <<>> /\ text[1] \in {"-", "+"}
           negative == signed /\ text[1] = "-"
           rest == IF signed THEN Tail(text) ELSE text
           hex == Len(rest) >= 2 /\ rest[1] = "0" /\ rest[2] \in {"x", "X"}
           digits == IF hex THEN LeadingHex(SubSeq(rest, 3, Len(rest)))
                     ELSE LeadingDigits(rest)
           value == IF hex THEN Hexadecimal(digits) ELSE Decimal(digits)
       IN  IF digits = <<>> THEN NaN
           ELSE Num(IF negative THEN 0 - value ELSE value)
  ELSE NaN

\* the options handed to rateLimit()
limiterConfig(e) ==
  [windowMs |-> OrElse(ParseInt(Get(e, "RATE_LIMIT_WINDOW_MS")), Num(DefaultWindowMs)),
   max |-> OrElse(ParseInt(Get(e, "RATE_LIMIT_MAX_REQUESTS")), Num(DefaultMax))]

\* every mode but production bypasses
skipUnlessProduction(e) == Get(e, "NODE_ENV") # Str("production")

\* skip: () => process.env.NODE_ENV === 'development'
skip(e) == Get(e, "NODE_ENV") = Str("development")

\* the seconds left of the window; the model does not measure them
SecondsToReset == [t |-> "seconds"]

\* standardHeaders: true, legacyHeaders: false: a request the limiter has
\* counted is answered with the RateLimit-* headers, a skipped one without
standardHeaders(h, info) ==
  IF info = UNDEF THEN h
  ELSE SetHeader(SetHeader(SetHeader(h, "RateLimit-Limit", Get(info, "limit")),
                           "RateLimit-Remaining", Get(info, "remaining")),
                 "RateLimit-Reset", SecondsToReset)

\* the message option: the body of a denial
RateLimitExceeded ==
  ErrorEnvelope("RATE_LIMIT_EXCEEDED", "Too many requests, please try again later")

\* the request that reaches the ceiling is denied already
rateLimitAtCeiling(r, e, cfg, store) ==
  IF skip(e)
  THEN [store |-> store, info |-> UNDEF, denied |-> FALSE]
  ELSE LET total == store[r.ip] + 1
           left == IF cfg.max.n > total THEN cfg.max.n - total ELSE 0
       IN  [store |-> [store EXCEPT ![r.ip] = total],
            info |-> Obj([limit |-> cfg.max, current |-> Num(total), remaining |-> Num(left)]),
            denied |-> total >= cfg.max.n]

\* the middleware rateLimit(options) returns, applied to request r: unless
\* skipped it counts the request under its key (the client address) and
\* denies it when the count of the window exceeds max
rateLimit(r, e, cfg, store) ==
  IF skip(e)
  THEN [store |-> store, info |-> UNDEF, denied |-> FALSE]
  ELSE LET total == store[r.ip] + 1
           left == IF cfg.max.n > total THEN cfg.max.n - total ELSE 0
       IN  [store |-> [store EXCEPT ![r.ip] = total],
            info |-> Obj([limit |-> cfg.max, current |-> Num(total), remaining |-> Num(left)]),
            denied |-> total > cfg.max.n]

(***************************************************************************)
(* Backend calls: the slots of Promise.allSettled.                         *)
(***************************************************************************)
\* the call made without the credential of the caller
AxiosGetNoCredential(service, url, id, token) ==
  [service |-> service, url |-> url, id |-> id, auth |-> UNDEF,
   correlation |-> UNDEF, status |-> "pending", body |-> UNDEF]

\* axios.get(url, {headers: {Authorization: token}}): the headers option
\* names Authorization alone, no X-Correlation-ID
AxiosGet(service, url, id, token) ==
  [service |-> service, url |-> url, id |-> id, auth |-> token,
   correlation |-> UNDEF, status |-> "pending", body |-> UNDEF]

\* Promise.all: resolved by the last fulfilment, rejected by the first
\* rejection
SettledOrRejected(c) ==
  \/ \A i \in DOMAIN c : c[i].status = "fulfilled"
  \/ \E i \in DOMAIN c : c[i].status = "rejected"

\* resolved only when every promise has fulfilled: a rejection leaves
\* the handler waiting
SettledFulfilled(c) == \A i \in DOMAIN c : c[i].status = "fulfilled"

\* Promise.allSettled resolves once no promise of the array is pending
Settled(c) == \A i \in DOMAIN c : c[i].status # "pending"

\* slot.status === 'fulfilled' ? slot.value.data.data : fallback
DataOr(slot, fallback) ==
  IF slot.status = "fulfilled" THEN Get(slot.body, "data") ELSE fallback

\* slot.status === 'fulfilled' ? slot.value.data.data.length : 0
LengthOr(slot, fallback) ==
  IF slot.status = "fulfilled" THEN Get(Get(slot.body, "data"), "length") ELSE fallback

\* the optional chaining left out: pagination.total_count
TotalCountOrUnguarded(slot, fallback) ==
  IF slot.status = "fulfilled"
  THEN OrElse(Get(Get(slot.body, "pagination"), "total_count"), fallback)
  ELSE fallback

\* slot.status === 'fulfilled' ? slot.value.data.pagination?.total_count || 0 : 0
TotalCountOr(slot, fallback) ==
  IF slot.status = "fulfilled"
  THEN OrElse(OptGet(Get(slot.body, "pagination"), "total_count"), fallback)
  ELSE fallback

\* the comparison of strings alone: b.booking_date === today
IsTodayVerbatim(b, day) ==
  LET d == Get(b, "booking_date")
  IN  IF IsThrown(d) THEN d ELSE Bool(d = day)

\* b.booking_date === today ||
\*   new Date(b.booking_date).toISOString().split('T')[0] === today
IsToday(b, day) ==
  LET d == Get(b, "booking_date")
  IN  IF IsThrown(d) THEN d
      ELSE IF d = day THEN Bool(TRUE)
      ELSE LET iso == ToISOString(NewDate(d))
           IN  IF IsThrown(iso) THEN iso ELSE Bool(DatePart(iso) = day)

\* list.filter(b => IsToday(b)): a TypeError when list has no filter method,
\* the callback's exception when it throws
FilterToday(list, day) ==
  CASE IsThrown(list) -> list
    [] list.t \in {"undefined", "null"} -> TypeError
    [] list.t # "array" -> TypeError
    [] OTHER ->
         LET thrown == {i \in 1..Len(list.a) : IsThrown(IsToday(list.a[i], day))}
             first == CHOOSE i \in thrown : \A j \in thrown : i <= j
             keep(b) == IsToday(b, day).b
         IN  IF thrown # {} THEN IsToday(list.a[first], day)
             ELSE Arr(SelectSeq(list.a, keep))

\* the first exception evaluating the expressions of seq, in order, raises
FirstThrown(seq) ==
  LET thrown == {i \in 1..Len(seq) : IsThrown(seq[i])}
  IN  IF thrown = {} THEN UNDEF
      ELSE seq[CHOOSE i \in thrown : \A j \in thrown : i <= j]

(***************************************************************************)
(* Calls of the booking endpoint and proxied requests.                     *)
(***************************************************************************)
\* an HTTP answer of a backend
Answer(status, body) == [status |-> status, body |-> body]
NoAnswer == Answer(0, UNDEF)

\* axios resolves on a 2xx status and rejects, with error.response, on any
\* other
IsSuccess(status) == status \in 200..299

\* a request on its way to a backend
Outgoing(via, service, method, path, auth, correlation, data) ==
  [via |-> via, service |-> service, method |-> method, path |-> path, auth |-> auth,
   correlation |-> correlation, data |-> data, status |-> "pending", answer |-> NoAnswer]

\* `${v}` inside a URL
TemplateText(v) ==
  CASE v.t = "undefined" -> "undefined"
    [] v.t = "null" -> "null"
    [] v.t = "string" /\ "s" \in DOMAIN v -> v.s
    [] OTHER -> "[object]"

\* await of an axios call the backend answered with a (status 0: no answer)
Await(a) ==
  IF IsSuccess(a.status)
  THEN Obj([status |-> Num(a.status), data |-> a.body])
  ELSE AxiosError(a)

\* the rejection let through to the catch block of the handler
Uncaught(v) == v

\* .catch(() => null)
CatchNull(v) == IF IsThrown(v) THEN NULL ELSE v

\* any user found passes for a trainer
AnyRole(trainerCheck) ==
  LET found == Get(Get(trainerCheck, "data"), "data")
  IN  IF IsThrown(found) THEN found ELSE Bool(FALSE)

\* trainerCheck.data.data.role !== 'trainer'
NotTrainer(trainerCheck) ==
  LET role == Get(Get(Get(trainerCheck, "data"), "data"), "role")
  IN  IF IsThrown(role) THEN role ELSE Bool(role # Str("trainer"))

\* the body of the create call: client_id is read and not sent
BookingData(body) ==
  Serialize(Obj([k \in {"trainer_id", "booking_date", "start_time", "end_time",
                        "type", "gym_id", "notes"} |-> Get(body, k)]))

\* res.status(201).json(booking.data)
SendCreated(r, booking) == Send(r, 201, Get(booking, "data"))

\* every failure answered with the BOOKING_FAILED envelope
CatchAll(r, error) == Send(r, 500, BookingFailed)

\* the catch block of the booking handler
BookingCatch(r, error) ==
  IF error.t = "AxiosError" /\ error.response # NoAnswer
  THEN Send(r, error.response.status, error.response.body)
  ELSE Send(r, 500, BookingFailed)

\* the path relative to the mount point: req.url inside the middleware
MountRelative(r) == r.url

\* the path the proxy requests of its target: req.originalUrl
ProxyPath(r) == r.originalUrl

\* a body of type application/x-www-form-urlencoded, with its fields
Form(o) == [t |-> "form", o |-> o]

\* a body of a type no parser is registered for (text/plain)
Plain(s) == [t |-> "plain", s |-> s]

\* express.json(): no body, or a body of another type, leaves {}; text
\* that is not JSON raises
JsonParse(raw) ==
  CASE raw.t \in {"undefined", "form", "plain"} -> EmptyObj
    [] raw.t = "text" -> SyntaxError
    [] OTHER -> raw

\* express.urlencoded({extended: true}): a form becomes the object of its
\* fields, anything else is left as express.json() left it
UrlencodedParse(raw, body) == IF raw.t = "form" THEN Obj(raw.o) ELSE body

\* a body parser has read the stream of the request to its end
StreamRead(raw) == raw.t \notin {"undefined", "plain"}

\* Object.keys(v).length
KeyCount(v) ==
  CASE v.t = "object" -> Cardinality(DOMAIN v.o)
    [] v.t = "array" -> Len(v.a)
    [] OTHER -> 0

\* the body the target receives of a proxied request: JSON.stringify(req.body)
\* written by onProxyReq for POST, PUT and PATCH when req.body has keys;
\* otherwise what is left of the stream of the request, nothing once a
\* parser has read it
ProxyBody(r) ==
  IF Truthy(r.body) /\ KeyCount(r.body) > 0 /\ r.method \in {"POST", "PUT", "PATCH"}
  THEN Serialize(r.body)
  ELSE IF StreamRead(r.raw) THEN UNDEF ELSE r.raw

(***************************************************************************)
(* Access checks of the three dashboards.                                  *)
(***************************************************************************)
\* the comparison of ids inverted
ClientForbiddenInverted(user, id) ==
  Truthy(user) /\ Get(user, "role") = Str("client") /\ Get(user, "id") = id

\* the role test left out: every identity is held to its own id
ClientForbiddenAnyRole(user, id) ==
  Truthy(user) /\ Get(user, "id") # id

\* req.user && req.user.role === 'client' && req.user.id !== id
ClientForbidden(user, id) ==
  Truthy(user) /\ Get(user, "role") = Str("client") /\ Get(user, "id") # id

\* the role test left out: every identity is held to its own id
TrainerForbiddenAnyRole(user, id) ==
  Truthy(user) /\ Get(user, "id") # id

\* req.user && req.user.role === 'trainer' && req.user.id !== id
TrainerForbidden(user, id) ==
  Truthy(user) /\ Get(user, "role") = Str("trainer") /\ Get(user, "id") # id

\* an admin identity demanded: the guard on req.user left out
AdminForbiddenStrict(user) ==
  ~Truthy(user) \/ Get(user, "role") # Str("admin")

\* the test inverted to an equality with a non-admin role
AdminForbiddenClientsOnly(user) ==
  Truthy(user) /\ Get(user, "role") = Str("client")

\* only the roles below admin are turned away: an identity with another
\* role, or with none, passes
AdminForbiddenKnownRoles(user) ==
  Truthy(user) /\ Get(user, "role") \in {Str("client"), Str("trainer")}

\* req.user && req.user.role !== 'admin'
AdminForbidden(user) ==
  Truthy(user) /\ Get(user, "role") # Str("admin")

Forbidden(message) == ErrorEnvelope("FORBIDDEN", message)

(***************************************************************************)
(* Fan-out of each dashboard, in the order of the array literal.           *)
(***************************************************************************)
ClientCalls(id, token) ==
  << AxiosGet("user", "/api/users/:id", id, token),
     AxiosGet("training", "/api/programs?client_id=:id&limit=5", id, token),
     AxiosGet("schedule", "/api/bookings?client_id=:id&status=scheduled&limit=5", id, token),
     AxiosGet("progress", "/api/analytics/client/:id", id, token) >>

TrainerCalls(id, token) ==
  << AxiosGet("user", "/api/users/:id", id, token),
     AxiosGet("training", "/api/programs?trainer_id=:id&status=active&limit=10", id, token),
     AxiosGet("schedule", "/api/bookings?trainer_id=:id&limit=20", id, token),
     AxiosGet("user", "/api/users?role=client&limit=50", UNDEF, token) >>

AdminCalls(token) ==
  << AxiosGet("user", "/api/users?limit=1", UNDEF, token),
     AxiosGet("user", "/api/users?role=trainer&limit=1", UNDEF, token),
     AxiosGet("user", "/api/users?role=client&limit=1", UNDEF, token),
     AxiosGet("training", "/api/programs?limit=1", UNDEF, token) >>

(***************************************************************************)
(* Assembly of each dashboard: the response of the try block, or of its    *)
(* catch when an expression of the block throws.                           *)
(***************************************************************************)
Respond(r, fields, data, t) ==
  IF FirstThrown(fields).t # "undefined"
  THEN Send(r, 500, DashboardError)
  ELSE Send(r, 200, SuccessEnvelope(data, t))

ClientAssemble(r, c, t) ==
  LET profile == DataOr(c[1], NULL)
      programs == DataOr(c[2], Arr(<<>>))
      bookings == DataOr(c[3], Arr(<<>>))
      analytics == DataOr(c[4], NULL)
  IN  Respond(r, <<profile, programs, bookings, analytics>>,
              [profile |-> profile, active_programs |-> programs,
               upcoming_bookings |-> bookings, progress_summary |-> analytics], t)

\* active_clients counted from the list of clients, the fourth call
TrainerAssembleFromClients(r, c, day, t) ==
  LET todaySchedule == IF c[3].status = "fulfilled"
                       THEN FilterToday(Get(c[3].body, "data"), day)
                       ELSE Arr(<<>>)
      profile == DataOr(c[1], NULL)
      activeClients == LengthOr(c[4], Num(0))
      programs == DataOr(c[2], Arr(<<>>))
  IN  Respond(r, <<todaySchedule, profile, activeClients, programs>>,
              [profile |-> profile, active_clients |-> activeClients,
               today_schedule |-> todaySchedule, recent_programs |-> programs], t)

TrainerAssemble(r, c, day, t) ==
  LET todaySchedule == IF c[3].status = "fulfilled"
                       THEN FilterToday(Get(c[3].body, "data"), day)
                       ELSE Arr(<<>>)
      profile == DataOr(c[1], NULL)
      activeClients == LengthOr(c[2], Num(0))
      programs == DataOr(c[2], Arr(<<>>))
  IN  Respond(r, <<todaySchedule, profile, activeClients, programs>>,
              [profile |-> profile, active_clients |-> activeClients,
               today_schedule |-> todaySchedule, recent_programs |-> programs], t)

AdminAssemble(r, c, t) ==
  LET users == TotalCountOr(c[1], Num(0))
      trainers == TotalCountOr(c[2], Num(0))
      clients == TotalCountOr(c[3], Num(0))
      programs == TotalCountOr(c[4], Num(0))
  IN  Respond(r, <<users, trainers, clients, programs>>,
              [total_users |-> users, total_trainers |-> trainers,
               total_clients |-> clients, total_programs |-> programs], t)

(***************************************************************************)
(* Routing.  A path is the sequence of its segments; express matches a     *)
(* mount path segment by segment and a route pattern over the whole path.  *)
(***************************************************************************)
\* app.use(prefix, ...) applies to path
Mounted(prefix, path) ==
  Len(path) >= Len(prefix) /\ SubSeq(path, 1, Len(prefix)) = prefix

\* the route definitions, in the order they are registered
routes ==
  << [path |-> <<"api", "auth">>, target |-> "user"],
     [path |-> <<"api", "users">>, target |-> "user"],
     [path |-> <<"api", "exercises">>, target |-> "training"],
     [path |-> <<"api", "workouts">>, target |-> "training"],
     [path |-> <<"api", "diets">>, target |-> "training"],
     [path |-> <<"api", "programs">>, target |-> "training"],
     [path |-> <<"api", "availability">>, target |-> "schedule"],
     [path |-> <<"api", "bookings">>, target |-> "schedule"],
     [path |-> <<"api", "sessions">>, target |-> "schedule"],
     [path |-> <<"api", "metrics">>, target |-> "progress"],
     [path |-> <<"api", "workout-logs">>, target |-> "progress"],
     [path |-> <<"api", "health-records">>, target |-> "progress"],
     [path |-> <<"api", "analytics">>, target |-> "progress"],
     [path |-> <<"api", "achievements">>, target |-> "progress"],
     [path |-> <<"api", "notifications">>, target |-> "notification"] >>

NoMatch == [name |-> "none", params |-> EmptyObj, base |-> <<>>, target |-> "none"]

Matched(name, params) == [NoMatch EXCEPT !.name = name, !.params = params]

\* the proxy of the table declared last among those mounted on a prefix of
\* path
MatchLast(table, path) ==
  LET hit == {i \in 1..Len(table) : Mounted(table[i].path, path)}
      last == CHOOSE i \in hit : \A j \in hit : i >= j
  IN  IF hit = {} THEN NoMatch
      ELSE [name |-> "proxy", params |-> EmptyObj,
            base |-> table[last].path, target |-> table[last].target]

\* routes.forEach(({path, target}) => app.use(path, proxy(target))): the
\* proxies are mounted in the order of the table, and the first one mounted
\* on a prefix of path takes the request
MatchIn(table, path) ==
  LET hit == {i \in 1..Len(table) : Mounted(table[i].path, path)}
      first == CHOOSE i \in hit : \A j \in hit : i <= j
  IN  IF hit = {} THEN NoMatch
      ELSE [name |-> "proxy", params |-> EmptyObj,
            base |-> table[first].path, target |-> table[first].target]

\* the first proxy mounted on a prefix of path
MatchProxy(path) == MatchIn(routes, path)

\* the proxies mounted ahead of the booking endpoint
MatchRouteProxiesFirst(method, path) ==
  CASE method = "GET" /\ path = <<"health">> -> Matched("health", EmptyObj)
    [] method = "GET" /\ Len(path) = 4 /\ SubSeq(path, 1, 3) = <<"api", "dashboard", "client">> ->
         Matched("clientDashboard", Obj([id |-> Str(path[4])]))
    [] method = "GET" /\ Len(path) = 4 /\ SubSeq(path, 1, 3) = <<"api", "dashboard", "trainer">> ->
         Matched("trainerDashboard", Obj([id |-> Str(path[4])]))
    [] method = "GET" /\ path = <<"api", "dashboard", "admin">> ->
         Matched("adminDashboard", EmptyObj)
    [] MatchProxy(path) # NoMatch -> MatchProxy(path)
    [] method = "POST" /\ path = <<"api", "bookings", "validated">> ->
         Matched("validatedBooking", EmptyObj)
    [] OTHER -> NoMatch

\* the first handler, in order of registration, that takes the request
MatchRoute(method, path) ==
  CASE method = "GET" /\ path = <<"health">> -> Matched("health", EmptyObj)
    [] method = "GET" /\ Len(path) = 4 /\ SubSeq(path, 1, 3) = <<"api", "dashboard", "client">> ->
         Matched("clientDashboard", Obj([id |-> Str(path[4])]))
    [] method = "GET" /\ Len(path) = 4 /\ SubSeq(path, 1, 3) = <<"api", "dashboard", "trainer">> ->
         Matched("trainerDashboard", Obj([id |-> Str(path[4])]))
    [] method = "GET" /\ path = <<"api", "dashboard", "admin">> ->
         Matched("adminDashboard", EmptyObj)
    [] method = "POST" /\ path = <<"api", "bookings", "validated">> ->
         Matched("validatedBooking", EmptyObj)
    [] OTHER -> MatchProxy(path)

(***************************************************************************)
(* What the backends answer.  A call fulfils on a 2xx answer, whatever its *)
(* body, and rejects otherwise.  Conforming backends answer the documented *)
(* shape; arbitrary ones answer any of Bodies.                             *)
(***************************************************************************)
Booking(id, date) == Obj([id |-> Str(id), booking_date |-> date])

ItemBody ==
  Obj([success |-> Bool(TRUE), data |-> Obj([id |-> Str("u1"), name |-> Str("John")])])

ListBody ==
  Obj([success |-> Bool(TRUE),
       data |-> Arr(<< Booking("b0", IsoDate(0)),
                       Booking("b1", IsoTime(TicksPerDay + 1)),
                       Booking("b2", IsoDate(2)),
                       Booking("b3", IsoDate(1)),
                       Booking("b4", IsoTime(1)) >>),
       pagination |-> Obj([total_count |-> Num(3)])])

NoTotalBody ==
  Obj([success |-> Bool(TRUE), data |-> Arr(<<>>), pagination |-> EmptyObj])

Bodies == {NULL, EmptyObj, ItemBody, ListBody, NoTotalBody}

Conforming(call) ==
  IF call.url \in {"/api/users/:id", "/api/analytics/client/:id"}
  THEN ItemBody ELSE ListBody

Replies(call, kind) == IF kind = "conforming" THEN {Conforming(call)} ELSE Bodies

UserBody(role) ==
  Obj([success |-> Bool(TRUE), data |-> Obj([id |-> Str("u1"), role |-> Str(role)])])

CreatedBody ==
  Obj([success |-> Bool(TRUE), data |-> Obj([id |-> Str("b9"), status |-> Str("scheduled")])])

RefusedBody(code) ==
  Obj([success |-> Bool(FALSE), error |-> Obj([code |-> Str(code)])])

\* what a backend may answer to a call of the booking endpoint or to a
\* proxied request, when it answers
Answers(call) ==
  CASE call.via = "trainerCheck" ->
         {Answer(200, UserBody("trainer")), Answer(200, UserBody("client")),
          Answer(200, ItemBody), Answer(200, EmptyObj),
          Answer(404, RefusedBody("USER_NOT_FOUND"))}
    [] call.via = "create" ->
         {Answer(201, CreatedBody), Answer(200, CreatedBody),
          Answer(409, RefusedBody("SLOT_TAKEN")), Answer(500, UNDEF)}
    [] OTHER ->
         {Answer(200, ListBody), Answer(404, RefusedBody("NOT_FOUND"))}

(***************************************************************************)
(* Requests.                                                               *)
(***************************************************************************)
UserIds == {"u1", "u2"}

\* client addresses (req.ip)
Clients == {"c1", "c2"}

DashboardPaths ==
  {<<"api", "dashboard", "client", id>> : id \in UserIds}
    \cup {<<"api", "dashboard", "trainer", id>> : id \in UserIds}
    \cup {<<"api", "dashboard", "admin">>}

NoHeader == UNDEF

Bearer(token) == Chars(BearerPrefix \o token)

MalformedHeaders ==
  { Chars(<<>>),
    Chars(<<"B", "a", "s", "i", "c", " ", "x">>),
    Chars(<<"b", "e", "a", "r", "e", "r", " ", "tAdminU2">>),
    Chars(<<"B", "e", "a", "r", "e", "r", "tAdminU2">>) }

BearerHeaders ==
  {Bearer(<<>>), Bearer(<<"x", "y">>)} \cup {Bearer(<<k>>) : k \in TokenNames}

Headers == {NoHeader} \cup MalformedHeaders \cup BearerHeaders

\* a request body that is not JSON
NotJson == [t |-> "text"]

\* a request as it arrives: raw is the body the client sent (none, a JSON
\* value, or text that is not JSON)
NewRequest(method, path, authorization, ip, raw) ==
  [method |-> method, path |-> path, authorization |-> authorization,
   ip |-> ip, raw |-> raw, body |-> UNDEF,
   originalUrl |-> path, baseUrl |-> <<>>, url |-> path,
   correlationId |-> UNDEF, rateLimit |-> UNDEF, user |-> UNDEF,
   route |-> "none", params |-> EmptyObj, target |-> "none"]

GetRequest(path) == NewRequest("GET", path, NoHeader, "c1", UNDEF)

\* no request is being handled
NoRequest == NewRequest("", <<>>, UNDEF, "", UNDEF)

BookingPath == <<"api", "bookings", "validated">>

BookingBody ==
  Obj([trainer_id |-> Str("u1"), client_id |-> Str("u2"), booking_date |-> IsoDate(1),
       start_time |-> Str("09:00"), end_time |-> Str("10:00"), type |-> Str("personal")])

\* one request under each declared prefix
ProxiedRequests ==
  {GetRequest(routes[i].path \o <<"123">>) : i \in 1..Len(routes)}
    \cup {GetRequest(<<"api", "users">>), GetRequest(BookingPath),
          GetRequest(<<"api", "users", "bookings">>),
          GetRequest(<<"api", "bookings", "users", "1">>),
          NewRequest("POST", <<"api", "bookings">>, Bearer(<<"tClientU1">>), "c1", BookingBody),
          NewRequest("PUT", BookingPath, Bearer(<<"tClientU1">>), "c1", BookingBody),
          NewRequest("POST", BookingPath \o <<"x">>, NoHeader, "c1", BookingBody),
          NewRequest("DELETE", <<"api", "sessions", "7", "notes">>, Bearer(<<"tBadSig">>), "c2", UNDEF),
          NewRequest("DELETE", <<"api", "bookings", "123">>, NoHeader, "c1", BookingBody),
          NewRequest("PATCH", <<"api", "bookings", "123">>, NoHeader, "c1", BookingBody),
          NewRequest("POST", <<"api", "bookings">>, NoHeader, "c1", EmptyObj),
          NewRequest("POST", <<"api", "users">>, NoHeader, "c1", Form([email |-> Str("a@b")])),
          NewRequest("POST", <<"api", "users">>, NoHeader, "c1", Plain("hello"))}

\* requests no handler is registered for
UnroutedRequests ==
  {GetRequest(<<>>), GetRequest(<<"api">>), GetRequest(<<"healthz">>), GetRequest(<<"health", "live">>),
   GetRequest(<<"api", "dashboard">>), GetRequest(<<"api", "dashboard", "client">>),
   GetRequest(<<"api", "userss", "1">>), GetRequest(<<"users", "1">>), GetRequest(<<"api", "unknown", "x">>),
   NewRequest("POST", <<"api", "dashboard", "admin">>, Bearer(<<"tAdminU2">>), "c1", EmptyObj),
   NewRequest("POST", <<"health">>, NoHeader, "c2", UNDEF)}

BookingRequests ==
  {NewRequest("POST", BookingPath, h, "c1", b) :
     h \in {NoHeader, Bearer(<<"tClientU2">>)}, b \in {UNDEF, BookingBody}}

\* requests whose credential fails verification
UnverifiedRequests ==
  {NewRequest("GET", <<"api", "dashboard", "admin">>, Bearer(<<"tBadSig">>), "c1", UNDEF),
   NewRequest("GET", <<"api", "dashboard", "client", "u1">>,
              Chars(<<"B", "a", "s", "i", "c", " ", "x">>), "c1", UNDEF),
   NewRequest("POST", BookingPath, Bearer(<<"tExpired">>), "c1", BookingBody)}

\* dashboard requests of two callers: a client dashboard that is granted,
\* a trainer and an admin dashboard that are denied
PairedDashboards ==
  {NewRequest("GET", <<"api", "dashboard", "client", "u1">>, Bearer(<<"tClientU1">>), "c1", UNDEF),
   NewRequest("GET", <<"api", "dashboard", "trainer", "u2">>, Bearer(<<"tTrainerU1">>), "c2", UNDEF),
   NewRequest("GET", <<"api", "dashboard", "admin">>, Bearer(<<"tClientU1">>), "c1", UNDEF)}

\* one request for each handler of the gateway
OneOfEach ==
  {GetRequest(<<"health">>), GetRequest(<<"api", "bookings", "123">>), GetRequest(<<"api", "unknown", "x">>),
   NewRequest("POST", BookingPath, Bearer(<<"tClientU2">>), "c1", BookingBody),
   NewRequest("POST", <<"api", "users">>, NoHeader, "c1", NotJson)}

OneDashboardEach ==
  {NewRequest("GET", <<"api", "dashboard", "client", "u1">>, Bearer(<<"tClientU2">>), "c1", UNDEF),
   NewRequest("GET", <<"api", "dashboard", "trainer", "u1">>, Bearer(<<"tTrainerU2">>), "c1", UNDEF),
   GetRequest(<<"api", "dashboard", "admin">>)}

Environment(mode, max) ==
  Obj([NODE_ENV |-> mode, RATE_LIMIT_MAX_REQUESTS |-> max])

Development == Environment(Str("development"), UNDEF)

\* the traffic of the limiter: two clients, a ceiling of two requests
LimitedRequests ==
  {NewRequest("GET", p, NoHeader, c, UNDEF) :
     p \in {<<"api", "bookings", "123">>, <<"api", "unknown", "x">>, <<"health">>},
     c \in Clients}

\* the requests that arrive under each workload
Traffic(name) ==
  CASE name = "identities" ->
         {NewRequest("GET", p, h, "c1", UNDEF) : p \in DashboardPaths, h \in Headers}
           \cup OneOfEach
    [] name = "dashboards" ->
         {NewRequest("GET", p, h, "c1", UNDEF) :
            p \in {<<"api", "dashboard", "client", "u1">>,
                   <<"api", "dashboard", "trainer", "u1">>,
                   <<"api", "dashboard", "admin">>},
            h \in {NoHeader, Bearer(<<"tAdminU2">>), Bearer(<<"tClientU2">>)}}
           \cup OneOfEach
    [] name = "routes" ->
         ProxiedRequests \cup UnroutedRequests \cup BookingRequests
           \cup OneOfEach \cup OneDashboardEach \cup UnverifiedRequests
    [] name = "limited" ->
         LimitedRequests \cup OneOfEach \cup OneDashboardEach
    [] name = "every" ->
         OneOfEach \cup OneDashboardEach
    [] name = "paired" ->
         OneOfEach \cup PairedDashboards

\* what belongs to one request while it is handled: the req and res
\* objects and the local variables of its handler
Exchange(r, at, response, log, slots, day, outgoing, headers) ==
  [req |-> r, pc |-> at, res |-> response, nextLog |-> log, calls |-> slots,
   today |-> day, upstream |-> outgoing, resHeaders |-> headers]

\* no request
NoExchange == Exchange(NoRequest, "idle", NoResponse, <<>>, <<>>, UNDEF, <<>>, NoHeaders)

InitWith(name, kinds, start, environments) ==
  /\ now = start
  /\ workload = name
  /\ req = NoRequest
  /\ backends \in kinds
  /\ env \in environments
  /\ limiter = limiterConfig(env)
  /\ hits = [c \in Clients |-> 0]
  /\ pc = "idle"
  /\ res = NoResponse
  /\ nextLog = <<>>
  /\ calls = <<>>
  /\ upstream = <<>>
  /\ today = UNDEF
  /\ resHeaders = NoHeaders
  /\ parked = NoExchange

Init == InitWith("identities", {"conforming"}, 0, {Development})

InitAgg == InitWith("dashboards", {"arbitrary"}, MaxNow - 1, {Development})

InitGate == InitWith("routes", {"conforming"}, MaxNow - 1, {Development})

InitLimit ==
  InitWith("limited", {"conforming"}, MaxNow - 1,
           {Environment(mode, Chars(<<"2">>)) :
              mode \in {UNDEF, Str("development"), Str("production"), Str("test")}})

\* process.env with both overrides of the limiter
Configured(mode, window, max) ==
  Obj([NODE_ENV |-> mode, RATE_LIMIT_WINDOW_MS |-> window, RATE_LIMIT_MAX_REQUESTS |-> max])

\* values of an override: unset, empty, whole numbers, and texts that are
\* not numbers
Overrides ==
  { UNDEF, Chars(<<>>), Chars(<<"2">>), Chars(<<"3">>), Chars(<<"0">>), Chars(<<"-", "1">>),
    Chars(<<"2", "s">>), Chars(<<"s", "2">>), Chars(<<"2", ".", "9">>),
    Chars(<<"0", "x", "2">>), Chars(<<" ", "2">>), Chars(<<"i", "n", "v", "a", "l", "i", "d">>) }

InitConfig ==
  InitWith("limited", {"conforming"}, MaxNow - 1,
           {Configured(Str("production"), v, v) : v \in Overrides})

(***************************************************************************)
(* The middleware chain, in the order of registration.                     *)
(***************************************************************************)
\* the clock advances at any moment
Tick ==
  /\ now < MaxNow
  /\ now' = now + 1
  /\ UNCHANGED <<req, pc, res, nextLog, calls, today, backends,
                 env, limiter, hits, upstream, workload, resHeaders, parked>>

\* the annotator registered ahead of the limiter
AfterAnnotatorFirst(stage) ==
  CASE stage = "parse" -> "correlate"
    [] stage = "correlate" -> "verifyGlobal"
    [] stage = "verifyGlobal" -> "limit"
    [] stage = "limit" -> "route"

\* next(): the middleware registered after stage by app.use, in the order
\* of the calls of app.use; the router comes last
After(stage) ==
  CASE stage = "parse" -> "correlate"
    [] stage = "correlate" -> "limit"
    [] stage = "limit" -> "verifyGlobal"
    [] stage = "verifyGlobal" -> "route"

\* app.use(express.json()); app.use(express.urlencoded(...)): a body that
\* does not parse goes to the error handler
ParseBody ==
  /\ pc = "parse"
  /\ LET parsed == JsonParse(req.raw)
     IN  IF IsThrown(parsed)
         THEN req' = req /\ pc' = "error"
         ELSE /\ req' = [req EXCEPT !.body = UrlencodedParse(req.raw, parsed)]
              /\ pc' = After("parse")
  /\ UNCHANGED <<now, res, nextLog, calls, today, backends,
                 env, limiter, hits, upstream, workload, resHeaders, parked>>

\* values uuidv4() returns
Uuids == {"uuid-1", "uuid-2"}

\* req.correlationId = uuidv4(); res.setHeader('X-Correlation-ID', ...);
\* next().  No two requests in flight are given the same value
Correlate ==
  /\ pc = "correlate"
  /\ \E u \in Uuids :
       /\ parked.req.correlationId # Str(u)
       /\ req' = [req EXCEPT !.correlationId = Str(u)]
       /\ resHeaders' = SetHeader(resHeaders, "X-Correlation-ID", Str(u))
  /\ pc' = After("correlate")
  /\ UNCHANGED <<now, res, nextLog, calls, today, backends,
                 env, limiter, hits, upstream, workload, parked>>

\* app.use('/api/', limiter)
Limit ==
  /\ pc = "limit"
  /\ IF Mounted(<<"api">>, req.path)
     THEN LET l == rateLimit(req, env, limiter, hits)
          IN  /\ hits' = l.store
              /\ req' = [req EXCEPT !.rateLimit = l.info]
              /\ resHeaders' = standardHeaders(resHeaders, l.info)
              /\ IF l.denied
                 THEN res' = Send(res, 429, RateLimitExceeded) /\ pc' = "done"
                 ELSE res' = res /\ pc' = After("limit")
     ELSE pc' = After("limit") /\ UNCHANGED <<hits, req, res, resHeaders, parked>>
  /\ UNCHANGED <<now, nextLog, calls, today, backends, env, limiter, upstream, workload, parked>>

\* one application of verifyToken at position at of the chain
ApplyVerifyToken(at, then) ==
  LET v == verifyToken(req, now)
  IN  /\ req' = [req EXCEPT !.user = v.user]
      /\ res' = [res EXCEPT !.sent = @ + v.sent]
      /\ nextLog' = Append(nextLog, [at |-> at, outcome |-> v.outcome, nexts |-> v.nexts,
                                     sent |-> v.sent, before |-> req.user, after |-> v.user,
                                     time |-> now])
      /\ pc' = IF v.sent > 0 THEN "done" ELSE IF v.nexts > 0 THEN then ELSE "stalled"
      /\ UNCHANGED <<now, calls, today, backends, env, limiter, hits, upstream, workload, resHeaders, parked>>

\* app.use('/api/', verifyToken)
VerifyGlobal ==
  /\ pc = "verifyGlobal"
  /\ IF Mounted(<<"api">>, req.path)
     THEN ApplyVerifyToken("global", After("verifyGlobal"))
     ELSE /\ pc' = After("verifyGlobal")
          /\ UNCHANGED <<now, req, res, nextLog, calls, today, backends,
                         env, limiter, hits, upstream, workload, resHeaders, parked>>

\* the router hands the request to the first handler that takes it; a
\* mounted proxy sees the path relative to its mount point in req.url
Route ==
  /\ pc = "route"
  /\ LET m == MatchRoute(req.method, req.path)
     IN  /\ m.name # "none"
         /\ req' = [req EXCEPT !.route = m.name, !.params = m.params, !.target = m.target,
                               !.baseUrl = m.base,
                               !.url = SubSeq(req.path, Len(m.base) + 1, Len(req.path))]
         /\ pc' = CASE m.name = "health" -> "handler"
                    [] m.name = "proxy" -> "proxy"
                    [] OTHER -> "verifyRoute"
  /\ UNCHANGED <<now, res, nextLog, calls, today, backends,
                 env, limiter, hits, upstream, workload, resHeaders, parked>>

\* the 404 handler: no route took the request
NotFound ==
  /\ pc = "route"
  /\ MatchRoute(req.method, req.path).name = "none"
  /\ res' = Send(res, 404, NotFoundEnvelope(req.path, now))
  /\ pc' = "done"
  /\ UNCHANGED <<now, req, nextLog, calls, today, backends,
                 env, limiter, hits, upstream, workload, resHeaders, parked>>

\* the error handler
ErrorHandler ==
  /\ pc = "error"
  /\ res' = Send(res, 500, InternalError(req.correlationId, now))
  /\ pc' = "done"
  /\ UNCHANGED <<now, req, nextLog, calls, today, backends,
                 env, limiter, hits, upstream, workload, resHeaders, parked>>

\* GET /health
Health ==
  /\ pc = "handler" /\ req.route = "health"
  /\ res' = Send(res, 200, Healthy(now))
  /\ pc' = "done"
  /\ UNCHANGED <<now, req, nextLog, calls, today, backends,
                 env, limiter, hits, upstream, workload, resHeaders, parked>>

\* app.get(path, verifyToken, handler): the route's own verifyToken
VerifyRoute ==
  /\ pc = "verifyRoute"
  /\ ApplyVerifyToken("route", "handler")

\* the `return` in front of the 403 left out: the handler answers
\* FORBIDDEN and goes on to the fan-out
ClientDashboardNoReturn ==
  /\ pc = "handler" /\ req.route = "clientDashboard"
  /\ LET id == Get(req.params, "id")
         token == req.authorization
     IN  /\ res' = IF ClientForbidden(req.user, id)
                   THEN Send(res, 403, Forbidden("Cannot access other client dashboards"))
                   ELSE res
         /\ calls' = ClientCalls(id, token)
         /\ pc' = "await"
  /\ UNCHANGED <<now, req, nextLog, today, backends, env, limiter, hits, upstream, workload, resHeaders, parked>>

\* GET /api/dashboard/client/:id up to its await
ClientDashboard ==
  /\ pc = "handler" /\ req.route = "clientDashboard"
  /\ LET id == Get(req.params, "id")
         token == req.authorization
     IN  IF ClientForbidden(req.user, id)
         THEN /\ res' = Send(res, 403, Forbidden("Cannot access other client dashboards"))
              /\ pc' = "done"
              /\ calls' = calls
         ELSE /\ calls' = ClientCalls(id, token)
              /\ pc' = "await"
              /\ res' = res
  /\ UNCHANGED <<now, req, nextLog, today, backends, env, limiter, hits, upstream, workload, resHeaders, parked>>

\* GET /api/dashboard/trainer/:id up to its await
TrainerDashboard ==
  /\ pc = "handler" /\ req.route = "trainerDashboard"
  /\ LET id == Get(req.params, "id")
         token == req.authorization
     IN  IF TrainerForbidden(req.user, id)
         THEN /\ res' = Send(res, 403, Forbidden("Cannot access other trainer dashboards"))
              /\ pc' = "done"
              /\ UNCHANGED <<calls, today>>
         ELSE /\ today' = DatePart(Timestamp(now))
              /\ calls' = TrainerCalls(id, token)
              /\ pc' = "await"
              /\ res' = res
  /\ UNCHANGED <<now, req, nextLog, backends, env, limiter, hits, upstream, workload, resHeaders, parked>>

\* GET /api/dashboard/admin up to its await
AdminDashboard ==
  /\ pc = "handler" /\ req.route = "adminDashboard"
  /\ LET token == req.authorization
     IN  IF AdminForbidden(req.user)
         THEN /\ res' = Send(res, 403, Forbidden("Admin access required"))
              /\ pc' = "done"
              /\ calls' = calls
         ELSE /\ calls' = AdminCalls(token)
              /\ pc' = "await"
              /\ res' = res
  /\ UNCHANGED <<now, req, nextLog, today, backends, env, limiter, hits, upstream, workload, resHeaders, parked>>

\* the calls chained: each waits until the one before it has fulfilled
SettleInTurn(i) ==
  /\ pc = "await"
  /\ calls[i].status = "pending"
  /\ \A j \in 1..(i - 1) : calls[j].status = "fulfilled"
  /\ \/ calls' = [calls EXCEPT ![i].status = "rejected"]
     \/ \E b \in Replies(calls[i], backends) :
          calls' = [calls EXCEPT ![i].status = "fulfilled", ![i].body = b]
  /\ UNCHANGED <<now, req, pc, res, nextLog, today, backends,
                 env, limiter, hits, upstream, workload, resHeaders, parked>>

\* a call that rejected is issued again
SettleAndRetry(i) ==
  /\ pc = "await"
  /\ \/ /\ calls[i].status = "pending"
        /\ \/ calls' = [calls EXCEPT ![i].status = "rejected"]
           \/ \E b \in Replies(calls[i], backends) :
                calls' = [calls EXCEPT ![i].status = "fulfilled", ![i].body = b]
     \/ /\ calls[i].status = "rejected"
        /\ calls' = [calls EXCEPT ![i].status = "pending"]
  /\ UNCHANGED <<now, req, pc, res, nextLog, today, backends,
                 env, limiter, hits, upstream, workload, resHeaders, parked>>

\* the outcomes collected in the order of completion: whichever call
\* settles next, its outcome takes the first free slot
SettleInCompletionOrder(i) ==
  /\ pc = "await"
  /\ calls[i].status = "pending"
  /\ \A j \in 1..(i - 1) : calls[j].status # "pending"
  /\ \E j \in 1..4 :
       \/ calls' = [calls EXCEPT ![i].status = "rejected"]
       \/ \E b \in Replies(calls[j], backends) :
            calls' = [calls EXCEPT ![i].status = "fulfilled", ![i].body = b]
  /\ UNCHANGED <<now, req, pc, res, nextLog, today, backends,
                 env, limiter, hits, upstream, workload, resHeaders, parked>>

\* one backend call settles: a 2xx answer fulfils it, anything else
\* rejects; the outcome goes to the slot of the call, its place in the array
Settle(i) ==
  /\ pc = "await"
  /\ calls[i].status = "pending"
  /\ \/ calls' = [calls EXCEPT ![i].status = "rejected"]
     \/ \E b \in Replies(calls[i], backends) :
          calls' = [calls EXCEPT ![i].status = "fulfilled", ![i].body = b]
  /\ UNCHANGED <<now, req, pc, res, nextLog, today, backends,
                 env, limiter, hits, upstream, workload, resHeaders, parked>>

\* Promise.allSettled resolves: the handler resumes and answers
Assemble ==
  /\ pc = "await"
  /\ Settled(calls)
  /\ res' = CASE req.route = "clientDashboard" -> ClientAssemble(res, calls, now)
              [] req.route = "trainerDashboard" -> TrainerAssemble(res, calls, today, now)
              [] req.route = "adminDashboard" -> AdminAssemble(res, calls, now)
  /\ pc' = "done"
  /\ UNCHANGED <<now, req, nextLog, calls, today, backends,
                 env, limiter, hits, upstream, workload, resHeaders, parked>>

\* POST /api/bookings/validated up to its first await: the trainer check
ValidatedBooking ==
  /\ pc = "handler" /\ req.route = "validatedBooking"
  /\ LET token == req.authorization
         trainer_id == Get(req.body, "trainer_id")
     IN  IF IsThrown(trainer_id)
         THEN /\ res' = BookingCatch(res, trainer_id)
              /\ pc' = "done"
              /\ upstream' = upstream
         ELSE /\ upstream' = << Outgoing("trainerCheck", "user", "GET",
                                         <<"api", "users", TemplateText(trainer_id)>>,
                                         token, UNDEF, UNDEF) >>
              /\ pc' = "trainerCheck"
              /\ res' = res
  /\ UNCHANGED <<now, req, nextLog, calls, today, backends, env, limiter, hits, workload, resHeaders, parked>>

\* the trainer check settles and the handler resumes: INVALID_TRAINER, or
\* the create call up to its await
TrainerChecked ==
  /\ pc = "trainerCheck"
  /\ \E a \in {NoAnswer} \cup Answers(upstream[1]) :
       LET settled == [upstream[1] EXCEPT !.status = IF a = NoAnswer THEN "fault" ELSE "answered",
                                          !.answer = a]
           token == req.authorization
           trainerCheck == CatchNull(Await(a))
           refused == IF Truthy(trainerCheck) THEN NotTrainer(trainerCheck) ELSE Bool(TRUE)
       IN  CASE IsThrown(trainerCheck) ->
                  /\ res' = BookingCatch(res, trainerCheck)
                  /\ upstream' = <<settled>>
                  /\ pc' = "done"
             [] ~IsThrown(trainerCheck) /\ IsThrown(refused) ->
                  /\ res' = BookingCatch(res, refused)
                  /\ upstream' = <<settled>>
                  /\ pc' = "done"
             [] ~IsThrown(trainerCheck) /\ ~IsThrown(refused) /\ refused.b ->
                  /\ res' = Send(res, 400, InvalidTrainer)
                  /\ upstream' = <<settled>>
                  /\ pc' = "done"
             [] OTHER ->
                  /\ upstream' = << settled,
                                    Outgoing("create", "schedule", "POST", <<"api", "bookings">>,
                                             token, UNDEF, BookingData(req.body)) >>
                  /\ pc' = "create"
                  /\ res' = res
  /\ UNCHANGED <<now, req, nextLog, calls, today, backends, env, limiter, hits, workload, resHeaders, parked>>

\* the create call settles and the handler answers
BookingCreated ==
  /\ pc = "create"
  /\ \E a \in {NoAnswer} \cup Answers(upstream[2]) :
       LET booking == Await(a)
       IN  /\ upstream' = [upstream EXCEPT ![2].status = IF a = NoAnswer THEN "fault" ELSE "answered",
                                           ![2].answer = a]
           /\ res' = IF IsThrown(booking) THEN BookingCatch(res, booking)
                     ELSE SendCreated(res, booking)
  /\ pc' = "done"
  /\ UNCHANGED <<now, req, nextLog, calls, today, backends, env, limiter, hits, workload, resHeaders, parked>>

\* the proxy mounted on the prefix sends the request on (onProxyReq)
ProxyReq ==
  /\ pc = "proxy"
  /\ upstream' = << Outgoing("proxy", req.target, req.method, ProxyPath(req),
                             req.authorization, req.correlationId, ProxyBody(req)) >>
  /\ pc' = "proxying"
  /\ UNCHANGED <<now, req, res, nextLog, calls, today, backends, env, limiter, hits, workload, resHeaders, parked>>

\* the target answers: its status and body go back to the caller
ProxyRes ==
  /\ pc = "proxying"
  /\ \E a \in Answers(upstream[1]) :
       /\ upstream' = [upstream EXCEPT ![1].status = "answered", ![1].answer = a]
       /\ res' = [sent |-> res.sent + 1, status |-> a.status, body |-> a.body]
  /\ pc' = "done"
  /\ UNCHANGED <<now, req, nextLog, calls, today, backends, env, limiter, hits, workload, resHeaders, parked>>

\* the failure handed on to the error handler instead
ProxyErrorUnhandled ==
  /\ pc = "proxying"
  /\ upstream' = [upstream EXCEPT ![1].status = "fault"]
  /\ pc' = "error"
  /\ UNCHANGED <<now, req, res, nextLog, calls, today, backends, env, limiter, hits, workload, resHeaders, parked>>

\* the target cannot be reached (onError)
ProxyError ==
  /\ pc = "proxying"
  /\ upstream' = [upstream EXCEPT ![1].status = "fault"]
  /\ res' = Send(res, 502, ServiceUnavailable(now))
  /\ pc' = "done"
  /\ UNCHANGED <<now, req, nextLog, calls, today, backends, env, limiter, hits, workload, resHeaders, parked>>

\* a request of the traffic arrives
Accept ==
  /\ pc = "idle"
  /\ \E r \in Traffic(workload) :
       /\ hits[r.ip] < MaxHits
       /\ req' = r
  /\ pc' = "parse"
  /\ UNCHANGED <<now, res, nextLog, calls, today, backends,
                 env, limiter, hits, upstream, workload, resHeaders, parked>>

\* the exchange is over: the response went out, or the caller gave up
\* waiting for one
Close ==
  /\ pc \in {"done", "stalled"}
  /\ req' = NoRequest
  /\ pc' = "idle"
  /\ res' = NoResponse
  /\ nextLog' = <<>>
  /\ calls' = <<>>
  /\ upstream' = <<>>
  /\ today' = UNDEF
  /\ resHeaders' = NoHeaders
  /\ UNCHANGED <<now, backends, env, limiter, hits, workload, parked>>

\* the window of the limiter ends for client k: its count starts anew
WindowElapses(k) ==
  /\ hits' = [hits EXCEPT ![k] = 0]
  /\ UNCHANGED <<now, req, pc, res, nextLog, calls, today, backends,
                 env, limiter, upstream, workload, resHeaders, parked>>

Next ==
  \/ Tick
  \/ ParseBody
  \/ Correlate
  \/ Limit
  \/ VerifyGlobal
  \/ Route
  \/ NotFound
  \/ ErrorHandler
  \/ Health
  \/ VerifyRoute
  \/ ClientDashboard
  \/ TrainerDashboard
  \/ AdminDashboard
  \/ \E i \in 1..4 : Settle(i)
  \/ Assemble
  \/ ValidatedBooking
  \/ TrainerChecked
  \/ BookingCreated
  \/ ProxyReq
  \/ ProxyRes
  \/ ProxyError
  \/ Accept
  \/ Close
  \/ \E k \in Clients : WindowElapses(k)

Spec == Init /\ [][Next]_vars

SpecAgg == InitAgg /\ [][Next]_vars

SpecGate == InitGate /\ [][Next]_vars

SpecLimit == InitLimit /\ [][Next]_vars

SpecConfig == InitConfig /\ [][Next]_vars

\* the steps taken for the request at hand: the middleware and handler
\* code that is ready to run, and the settlement of a call it waits for
Handle ==
  \/ ParseBody \/ Correlate \/ Limit \/ VerifyGlobal \/ Route \/ NotFound
  \/ ErrorHandler \/ Health \/ VerifyRoute
  \/ ClientDashboard \/ TrainerDashboard \/ AdminDashboard
  \/ \E i \in 1..4 : Settle(i)
  \/ Assemble
  \/ ValidatedBooking \/ TrainerChecked \/ BookingCreated
  \/ ProxyReq \/ ProxyRes \/ ProxyError

\* the event loop runs code that is ready, and every call issued settles
SpecLive == InitGate /\ [][Next]_vars /\ WF_vars(Handle)

\* every kind of answer: a limiter that counts, backends that answer
\* anything
InitEvery ==
  InitWith("every", {"arbitrary"}, MaxNow - 1, {Environment(Str("production"), Chars(<<"2">>))})

SpecEvery == InitEvery /\ [][Next]_vars

(***************************************************************************)
(* The environment written while the gateway runs.                         *)
(***************************************************************************)
\* the environments of a gateway whose process.env is written
Reconfigurations ==
  {Environment(mode, max) :
     mode \in {Str("development"), Str("production")},
     max \in {Chars(<<"2">>), Chars(<<"3">>)}}

InitReconfigured == InitWith("limited", {"conforming"}, MaxNow - 1, Reconfigurations)

\* process.env is written between two requests; the options the limiter
\* was built with at startup stay as they are
SetEnv ==
  /\ pc = "idle"
  /\ \E e \in Reconfigurations : e # env /\ env' = e
  /\ UNCHANGED <<now, req, pc, res, nextLog, calls, today, backends,
                 limiter, hits, upstream, workload, resHeaders, parked>>

NextReconfigured == Next \/ SetEnv

SpecReconfigured == InitReconfigured /\ [][NextReconfigured]_vars

(***************************************************************************)
(* Two requests handled at a time.  The code of one request runs until it  *)
(* awaits; the code of the other request may run meanwhile.                *)
(***************************************************************************)
InitConcurrent == InitWith("paired", {"conforming"}, MaxNow - 1, {Development})

\* the places where the code of a request waits: for the bytes of the
\* body, for the store of the limiter, for a backend, for the response to
\* go out
Yields == {"idle", "parse", "limit", "await", "trainerCheck", "create",
           "proxying", "done", "stalled"}

\* the request at hand, as it stands
Running == Exchange(req, pc, res, nextLog, calls, today, upstream, resHeaders)

\* the identity kept in one place for all requests: the request that
\* resumes finds the identity of the one that ran last
SwitchSharingIdentity ==
  /\ pc \in Yields
  /\ req # NoRequest \/ parked.req # NoRequest
  /\ parked' = Running
  /\ req' = [parked.req EXCEPT !.user = req.user]
  /\ pc' = parked.pc /\ res' = parked.res /\ nextLog' = parked.nextLog
  /\ calls' = parked.calls /\ today' = parked.today /\ upstream' = parked.upstream
  /\ resHeaders' = parked.resHeaders
  /\ UNCHANGED <<now, backends, env, limiter, hits, workload>>

\* the request at hand waits and the other request goes on where it
\* stopped: req, res and the variables of a handler belong to one request
Switch ==
  /\ pc \in Yields
  /\ req # NoRequest \/ parked.req # NoRequest
  /\ parked' = Running
  /\ req' = parked.req /\ pc' = parked.pc /\ res' = parked.res
  /\ nextLog' = parked.nextLog /\ calls' = parked.calls /\ today' = parked.today
  /\ upstream' = parked.upstream /\ resHeaders' = parked.resHeaders
  /\ UNCHANGED <<now, backends, env, limiter, hits, workload>>

NextConcurrent == Next \/ Switch

SpecConcurrent == InitConcurrent /\ [][NextConcurrent]_vars

(***************************************************************************)
(* Vocabulary of the properties.                                           *)
(***************************************************************************)
HasIdentity == req.user.t = "object"

RoleIs(role) ==
  HasIdentity /\ "role" \in DOMAIN req.user.o /\ req.user.o.role = Str(role)

SubjectId == req.user.o.id

PathId == Str(req.path[4])

OnClient == req.method = "GET" /\ Len(req.path) = 4 /\ req.path[3] = "client"
OnTrainer == req.method = "GET" /\ Len(req.path) = 4 /\ req.path[3] = "trainer"
OnAdmin == req.method = "GET" /\ Len(req.path) = 3 /\ req.path[3] = "admin"

OnDashboard == req.route \in {"clientDashboard", "trainerDashboard", "adminDashboard"}

\* the handler of the dashboard has taken its access decision
Decided == OnDashboard /\ pc \in {"await", "done"}

\* the answer is the FORBIDDEN envelope at 403 and no backend call was issued
Denied ==
  /\ pc = "done"
  /\ res.sent = 1
  /\ res.status = 403
  /\ res.body.t = "object"
  /\ res.body.o.success = Bool(FALSE)
  /\ res.body.o.error.o.code = Str("FORBIDDEN")
  /\ calls = <<>>

\* the four calls of the endpoint are issued, each once, and no 403 is sent
FannedOut ==
  /\ Len(calls) = 4
  /\ res.status # 403
  /\ \A i \in 1..4 : calls[i].auth = req.authorization

AllFulfilled == Len(calls) = 4 /\ \A i \in 1..4 : calls[i].status = "fulfilled"

Succeeded ==
  /\ res.sent = 1
  /\ res.status = 200
  /\ res.body.t = "object"
  /\ res.body.o.success = Bool(TRUE)

\* C1: on the client dashboard a client identity with another subject id
\* gets FORBIDDEN at 403 and no backend call is ever issued; with its own
\* id the four calls are issued (user, training, schedule, progress) and,
\* the backends answering, the request ends in the success envelope.
C1_ClientOwnDashboardOnly ==
  OnClient /\ RoleIs("client") =>
    /\ SubjectId # PathId => calls = <<>> /\ pc # "await" /\ (Decided => Denied)
    /\ SubjectId = PathId /\ Decided =>
         /\ FannedOut
         /\ <<calls[1].service, calls[2].service, calls[3].service, calls[4].service>>
              = <<"user", "training", "schedule", "progress">>
         /\ \A i \in 1..4 : calls[i].id = PathId
         /\ (pc = "done" /\ AllFulfilled => Succeeded)

C1_Witness ==
  /\ OnClient /\ RoleIs("client") /\ SubjectId = Str("u2") /\ PathId = Str("u1")
  /\ Denied

\* reachability of the other half of C1: a client on its own dashboard
C1_WitnessOwn ==
  /\ OnClient /\ RoleIs("client") /\ SubjectId = PathId
  /\ pc = "done" /\ AllFulfilled /\ Succeeded

\* C2 as stated: the admin dashboard grants access if and only if the
\* caller's role is exactly admin; every other caller gets FORBIDDEN.
C2_AdminIffRoleAdmin ==
  OnAdmin /\ Decided =>
    /\ RoleIs("admin") => FannedOut
    /\ ~RoleIs("admin") => Denied

\* C2 amended: the admin dashboard grants access if and only if no identity
\* is attached or the role is exactly admin; an attached identity with any
\* other role (or none) gets FORBIDDEN at 403 and no backend call; a granted
\* request ends in the success envelope when the backends answer in shape.
C2_AdminIffAdminOrAnonymous ==
  OnAdmin =>
    /\ HasIdentity /\ ~RoleIs("admin") => calls = <<>> /\ pc # "await" /\ (Decided => Denied)
    /\ (~HasIdentity \/ RoleIs("admin")) /\ Decided =>
         /\ FannedOut
         /\ (pc = "done" /\ backends = "conforming" => Succeeded)

C2_Witness ==
  /\ OnAdmin /\ RoleIs("manager") /\ Denied

\* C3: on each dashboard a request with no identity attached (no credential
\* or one that failed verification) is never answered FORBIDDEN and issues
\* the endpoint's four calls.
C3_NoIdentityIsAuthorized ==
  ~HasIdentity /\ Decided =>
    /\ FannedOut
    /\ ~Denied
    /\ OnClient => \A i \in 1..4 : calls[i].url = ClientCalls(PathId, req.authorization)[i].url
    /\ OnTrainer => \A i \in 1..4 : calls[i].url = TrainerCalls(PathId, req.authorization)[i].url
    /\ OnAdmin => \A i \in 1..4 : calls[i].url = AdminCalls(req.authorization)[i].url

C3_Witness ==
  /\ OnAdmin /\ ~HasIdentity /\ req.authorization = Bearer(<<"tBadSig">>)
  /\ pc = "done" /\ Succeeded /\ Len(calls) = 4

\* C4: on the trainer dashboard a trainer identity with another subject id
\* gets FORBIDDEN at 403 with zero backend calls; a trainer on its own id,
\* an admin and a client are not denied.
C4_TrainerOwnDashboardOnly ==
  OnTrainer /\ HasIdentity =>
    /\ RoleIs("trainer") /\ SubjectId # PathId =>
         calls = <<>> /\ pc # "await" /\ (Decided => Denied)
    /\ Decided /\ \/ RoleIs("trainer") /\ SubjectId = PathId
                  \/ RoleIs("admin")
                  \/ RoleIs("client")
         => FannedOut /\ ~Denied

C4_Witness ==
  /\ OnTrainer /\ RoleIs("trainer") /\ SubjectId = Str("u2") /\ PathId = Str("u1")
  /\ Denied

\* C5: on the client dashboard a trainer or admin identity is never denied,
\* whatever the path id: the request proceeds to the fan-out.
C5_TrainerAdminSeeAnyClient ==
  OnClient /\ (RoleIs("trainer") \/ RoleIs("admin")) /\ Decided => FannedOut /\ ~Denied

C5_Witness ==
  /\ OnClient /\ RoleIs("trainer") /\ SubjectId = Str("u2") /\ PathId = Str("u1")
  /\ pc = "await" /\ Len(calls) = 4

\* the header is `Bearer <token>` and the token, read at clock reading t,
\* carries the gateway's signature, issuer and audience and no expiry that
\* has passed
CredentialPasses(h, t) ==
  /\ h.t = "string"
  /\ Len(h.chars) = Len(BearerPrefix) + 1
  /\ SubSeq(h.chars, 1, Len(BearerPrefix)) = BearerPrefix
  /\ h.chars[Len(h.chars)] \in TokenNames
  /\ LET tk == TokenTable[h.chars[Len(h.chars)]]
     IN  /\ tk.secret = JWT_SECRET
         /\ tk.payload.o.iss = Str(ISSUER)
         /\ tk.payload.o.aud = Str(AUDIENCE)
         /\ "exp" \in DOMAIN tk.payload.o => t < tk.payload.o.exp.n

PresentedClaims == TokenTable[req.authorization.chars[Len(req.authorization.chars)]].payload

\* the annotator has not answered the request and has passed it on
PassedOn ==
  /\ pc # "stalled"
  /\ pc \in {"parse", "correlate", "limit", "verifyGlobal", "route", "verifyRoute", "handler"}
       => res = NoResponse
  /\ Len(nextLog) <= 2
  /\ pc \in {"parse", "correlate", "limit", "verifyGlobal"} => Len(nextLog) = 0
  /\ pc \in {"route", "verifyRoute"} /\ Mounted(<<"api">>, req.path) => Len(nextLog) = 1
  /\ OnDashboard /\ pc \in {"handler", "await", "done"} => Len(nextLog) = 2

\* C6 as stated: every application of verifyToken to a request whose
\* credential is absent, empty, not `Bearer <token>` or fails verification
\* sends no response, calls next() exactly once and leaves req.user
\* undefined.
C6_FailedLeavesNoIdentity ==
  /\ PassedOn
  /\ \A i \in DOMAIN nextLog :
       ~CredentialPasses(req.authorization, nextLog[i].time) =>
         nextLog[i].nexts = 1 /\ nextLog[i].sent = 0 /\ nextLog[i].after = UNDEF

\* C6 amended: such an application sends no response, calls next() exactly
\* once and attaches nothing: req.user is left as it was, which is undefined
\* unless an earlier application to the same request verified the credential
\* before it expired.
C6_FailedAttachesNothing ==
  /\ PassedOn
  /\ \A i \in DOMAIN nextLog :
       ~CredentialPasses(req.authorization, nextLog[i].time) =>
         /\ nextLog[i].nexts = 1 /\ nextLog[i].sent = 0
         /\ nextLog[i].after = nextLog[i].before
         /\ nextLog[i].after # UNDEF =>
              \E j \in 1..(i - 1) : CredentialPasses(req.authorization, nextLog[j].time)

C6_Witness ==
  /\ req.authorization = Bearer(<<"tExpired">>)
  /\ Len(nextLog) = 2 /\ nextLog[1].outcome = "failed" /\ nextLog[2].outcome = "failed"
  /\ pc = "handler" /\ req.user = UNDEF /\ res = NoResponse

\* the case the amendment is about: the credential expires between the two
\* applications of the annotator
C6_WitnessExpiredBetween ==
  /\ Len(nextLog) = 2 /\ nextLog[1].outcome = "verified" /\ nextLog[2].outcome = "failed"
  /\ HasIdentity

\* C7: at every point of the handling an identity is attached if and only if
\* the request's bearer credential has passed verification (gateway secret,
\* fixed issuer and audience, not expired when read); the identity is the
\* token's claim set verbatim: id, role, custom claims, iss, aud, iat, exp.
C7_IdentityIffVerified ==
  /\ HasIdentity <=>
       \E i \in DOMAIN nextLog : CredentialPasses(req.authorization, nextLog[i].time)
  /\ ~HasIdentity => req.user = UNDEF
  /\ HasIdentity =>
       /\ req.user = PresentedClaims
       /\ {"iss", "aud"} \subseteq DOMAIN req.user.o
       /\ req.user.o.iss = Str(ISSUER) /\ req.user.o.aud = Str(AUDIENCE)

C7_Witness ==
  /\ req.authorization = Bearer(<<"tTrainerU1">>)
  /\ HasIdentity
  /\ req.user.o.id = Str("u1") /\ req.user.o.role = Str("trainer")
  /\ req.user.o.gym_id = Str("gym-1")
  /\ {"iss", "aud", "iat", "exp"} \subseteq DOMAIN req.user.o
  /\ pc = "done"

(***************************************************************************)
(* Assembly: what each field of a dashboard answer is documented to hold.  *)
(***************************************************************************)
HasData(b) == b.t = "object" /\ "data" \in DOMAIN b.o

HasTotal(b) ==
  /\ b.t = "object" /\ "pagination" \in DOMAIN b.o
  /\ b.o.pagination.t = "object" /\ "total_count" \in DOMAIN b.o.pagination.o

\* the answer's data object, once the success envelope is sent
Payload == res.body.o.data.o

\* field f, fed by call i, holds the fallback when the call rejected and the
\* backend's nested data when the call fulfilled with one
DataField(f, i, fallback) ==
  /\ calls[i].status = "rejected" => f \in DOMAIN Payload /\ Payload[f] = fallback
  /\ calls[i].status = "fulfilled" /\ HasData(calls[i].body) =>
       f \in DOMAIN Payload /\ Payload[f] = calls[i].body.o.data

CountField(f, i) ==
  /\ calls[i].status = "rejected" => f \in DOMAIN Payload /\ Payload[f] = Num(0)
  /\ calls[i].status = "fulfilled" /\ HasTotal(calls[i].body) =>
       f \in DOMAIN Payload /\ Payload[f] = calls[i].body.o.pagination.o.total_count

FieldsAsDocumented ==
  /\ OnClient =>
       /\ DataField("profile", 1, NULL)
       /\ DataField("active_programs", 2, Arr(<<>>))
       /\ DataField("upcoming_bookings", 3, Arr(<<>>))
       /\ DataField("progress_summary", 4, NULL)
  /\ OnTrainer =>
       /\ DataField("profile", 1, NULL)
       /\ DataField("recent_programs", 2, Arr(<<>>))
       /\ calls[2].status = "rejected" =>
            "active_clients" \in DOMAIN Payload /\ Payload.active_clients = Num(0)
       /\ calls[3].status = "rejected" =>
            "today_schedule" \in DOMAIN Payload /\ Payload.today_schedule = Arr(<<>>)
  /\ OnAdmin =>
       /\ CountField("total_users", 1)
       /\ CountField("total_trainers", 2)
       /\ CountField("total_clients", 3)
       /\ CountField("total_programs", 4)

\* C8: whichever of the four calls reject, the answer is the success
\* envelope at 200 and each field holds the backend's value when its call
\* fulfilled and the fallback (null, empty list, 0) when it rejected.
C8_PartialFailureFallbacks ==
  pc = "done" /\ Len(calls) = 4 => Succeeded /\ FieldsAsDocumented

\* what the code does keep of C8: every answer it assembles without an
\* exception has the fields as documented
C8_FallbacksWhenAssembled ==
  pc = "done" /\ Len(calls) = 4 /\ res.status = 200 => Succeeded /\ FieldsAsDocumented

\* C9: an authorized dashboard request ends in the success envelope at 200
\* whatever the backends answer; only the access check produces a failure
\* envelope.
C9_BackendsNeverFailTheDashboard ==
  OnDashboard /\ pc = "done" => IF calls = <<>> THEN Denied ELSE Succeeded

\* a call that fulfilled with a payload lacking the nested field its
\* dashboard field reads
LacksData(i) == calls[i].status = "fulfilled" /\ ~HasData(calls[i].body)
LacksTotal(i) == calls[i].status = "fulfilled" /\ ~HasTotal(calls[i].body)

Expected(f, lacks, fallback) ==
  /\ f \in DOMAIN Payload
  /\ lacks => Payload[f] = fallback

\* C10: in every dashboard success answer no field is missing, and a field
\* whose call fulfilled without the expected nested field holds the same
\* fallback as for a rejected call.
C10_MissingNestedFieldFallsBack ==
  pc = "done" /\ Len(calls) = 4 /\ res.status = 200 =>
    /\ OnClient =>
         /\ Expected("profile", LacksData(1), NULL)
         /\ Expected("active_programs", LacksData(2), Arr(<<>>))
         /\ Expected("upcoming_bookings", LacksData(3), Arr(<<>>))
         /\ Expected("progress_summary", LacksData(4), NULL)
    /\ OnTrainer =>
         /\ Expected("profile", LacksData(1), NULL)
         /\ Expected("active_clients", LacksData(2), Num(0))
         /\ Expected("today_schedule", LacksData(3), Arr(<<>>))
         /\ Expected("recent_programs", LacksData(2), Arr(<<>>))
    /\ OnAdmin =>
         /\ Expected("total_users", LacksTotal(1), Num(0))
         /\ Expected("total_trainers", LacksTotal(2), Num(0))
         /\ Expected("total_clients", LacksTotal(3), Num(0))
         /\ Expected("total_programs", LacksTotal(4), Num(0))

\* the part of C10 the code keeps: the admin counts
C10_AdminCountsFallBack ==
  pc = "done" /\ Len(calls) = 4 /\ res.status = 200 /\ OnAdmin =>
    /\ Expected("total_users", LacksTotal(1), Num(0))
    /\ Expected("total_trainers", LacksTotal(2), Num(0))
    /\ Expected("total_clients", LacksTotal(3), Num(0))
    /\ Expected("total_programs", LacksTotal(4), Num(0))

\* the runs that refute C8, C9 and C10, as states the model reaches
C8_FailingRun ==
  /\ OnClient /\ pc = "done" /\ Len(calls) = 4
  /\ calls[1].status = "fulfilled" /\ calls[1].body = NULL
  /\ calls[2].status = "fulfilled" /\ calls[2].body = ListBody
  /\ calls[3].status = "rejected" /\ calls[4].status = "rejected"
  /\ res.status = 500 /\ res.body = DashboardError

C9_FailingRun ==
  /\ OnTrainer /\ pc = "done" /\ Len(calls) = 4
  /\ calls[1].status = "fulfilled" /\ calls[1].body = ItemBody
  /\ calls[2].status = "fulfilled" /\ calls[2].body = EmptyObj
  /\ calls[3].status = "fulfilled" /\ calls[3].body = ListBody
  /\ calls[4].status = "fulfilled" /\ calls[4].body = ListBody
  /\ res.status = 500 /\ res.body = DashboardError

C10_FailingRun ==
  /\ OnClient /\ pc = "done" /\ Len(calls) = 4
  /\ calls[1].status = "fulfilled" /\ calls[1].body = EmptyObj
  /\ calls[2].status = "fulfilled" /\ calls[2].body = ListBody
  /\ calls[3].status = "fulfilled" /\ calls[3].body = ListBody
  /\ calls[4].status = "fulfilled" /\ calls[4].body = ItemBody
  /\ Succeeded
  /\ DOMAIN Payload = {"active_programs", "upcoming_bookings", "progress_summary"}

(***************************************************************************)
(* The admin counts.                                                       *)
(***************************************************************************)
\* every fulfilled call of the fan-out was answered with a JSON object
ObjectBodies ==
  \A i \in 1..4 : calls[i].status = "fulfilled" => calls[i].body.t = "object"

\* the count documented for call i: the nested pagination.total_count when
\* the answer has one, 0 otherwise
TotalOf(i) ==
  IF calls[i].status = "fulfilled" /\ HasTotal(calls[i].body)
  THEN calls[i].body.o.pagination.o.total_count
  ELSE Num(0)

\* C11: on the admin dashboard, the backends answering JSON objects, the
\* answer is the success envelope and each total_* equals the nested
\* pagination.total_count of its call's answer when that field is present,
\* and 0 when the field is missing, when pagination is missing or when the
\* call rejected.
C11_AdminTotals ==
  OnAdmin /\ pc = "done" /\ Len(calls) = 4 /\ ObjectBodies =>
    /\ Succeeded
    /\ DOMAIN Payload = {"total_users", "total_trainers", "total_clients", "total_programs"}
    /\ Payload.total_users = TotalOf(1)
    /\ Payload.total_trainers = TotalOf(2)
    /\ Payload.total_clients = TotalOf(3)
    /\ Payload.total_programs = TotalOf(4)

C11_Witness ==
  /\ OnAdmin /\ pc = "done" /\ Len(calls) = 4
  /\ calls[1].status = "fulfilled" /\ calls[1].body = ListBody
  /\ calls[2].status = "fulfilled" /\ calls[2].body = NoTotalBody
  /\ calls[3].status = "fulfilled" /\ calls[3].body = ItemBody
  /\ calls[4].status = "rejected"
  /\ Succeeded
  /\ Payload.total_users = Num(3) /\ Payload.total_trainers = Num(0)
  /\ Payload.total_clients = Num(0) /\ Payload.total_programs = Num(0)

(***************************************************************************)
(* The trainer's schedule of the day.                                      *)
(***************************************************************************)
\* the calendar day a booking is dated: its booking_date as a date-only
\* string, the time of day dropped
DayOf(b) ==
  LET d == b.o.booking_date
  IN  IF "date" \in DOMAIN d THEN d.date ELSE d.iso \div TicksPerDay

\* the list is made of bookings that carry a date
Dated(list) ==
  /\ list.t = "array"
  /\ \A i \in 1..Len(list.a) :
       /\ list.a[i].t = "object" /\ "booking_date" \in DOMAIN list.a[i].o
       /\ list.a[i].o.booking_date.t = "string"

DatedOn(b) == DayOf(b) = today.date

\* C12: on the trainer dashboard today_schedule is exactly the sub-list, in
\* the original order, of the collected bookings whose booking_date, as a
\* date-only string, equals today's date (the date the handler read when
\* the request came in): bookings of other days never appear, bookings of
\* today always do, in whatever order the four calls settled.
C12_TodaySchedule ==
  /\ OnTrainer /\ pc = "done" /\ Len(calls) = 4 /\ res.status = 200
       /\ calls[3].status = "fulfilled" /\ HasData(calls[3].body)
       /\ Dated(calls[3].body.o.data) =>
         /\ "today_schedule" \in DOMAIN Payload
         /\ Payload.today_schedule = Arr(SelectSeq(calls[3].body.o.data.a, DatedOn))
  /\ OnTrainer /\ Len(calls) = 4 /\ calls[3].status = "fulfilled"
       /\ HasData(calls[3].body) /\ Dated(calls[3].body.o.data) =>
         FilterToday(calls[3].body.o.data, today)
           = Arr(SelectSeq(calls[3].body.o.data.a, DatedOn))

C12_Witness ==
  /\ OnTrainer /\ pc = "done" /\ Len(calls) = 4 /\ Succeeded
  /\ calls[3].status = "fulfilled" /\ calls[3].body = ListBody
  /\ today = IsoDate(1)
  /\ Payload.today_schedule
       = Arr(<<Booking("b1", IsoTime(TicksPerDay + 1)), Booking("b3", IsoDate(1))>>)

(***************************************************************************)
(* The validated booking.                                                  *)
(***************************************************************************)
OnBooking == req.route = "validatedBooking"

\* the answer the backend gave to call i of the booking endpoint
AnswerOf(i) == upstream[i].answer

\* call i has settled
Over(i) == Len(upstream) >= i /\ upstream[i].status # "pending"

\* the call got no 2xx answer: no answer at all, or an error answer
Failed(i) == Over(i) /\ ~IsSuccess(AnswerOf(i).status)

\* the identity backend answered the check with a user record
FoundUser ==
  /\ Over(1) /\ IsSuccess(AnswerOf(1).status)
  /\ AnswerOf(1).body.t = "object" /\ "data" \in DOMAIN AnswerOf(1).body.o
  /\ AnswerOf(1).body.o.data.t = "object"

FoundTrainer ==
  /\ FoundUser
  /\ "role" \in DOMAIN AnswerOf(1).body.o.data.o
  /\ AnswerOf(1).body.o.data.o.role = Str("trainer")

SentEnvelope(status, envelope) ==
  pc = "done" /\ res.sent = 1 /\ res.status = status /\ res.body = envelope

\* C13: on POST /api/bookings/validated the two calls are sequential: first
\* the trainer check (GET to the identity backend), and the create call
\* (POST to the scheduling backend) only once the check has returned a user
\* whose role is trainer; when the check fails or returns a user of another
\* role the answer is INVALID_TRAINER at 400 and no create call is issued.
C13_CreateOnlyAfterTrainerCheck ==
  OnBooking /\ pc \in {"trainerCheck", "create", "done"} =>
    /\ Len(upstream) \in {1, 2}
    /\ upstream[1].via = "trainerCheck" /\ upstream[1].service = "user"
    /\ upstream[1].method = "GET"
    /\ pc = "trainerCheck" <=> ~Over(1)
    /\ Len(upstream) = 2 <=> FoundTrainer
    /\ Len(upstream) = 2 =>
         /\ upstream[2].via = "create" /\ upstream[2].service = "schedule"
         /\ upstream[2].method = "POST" /\ upstream[2].path = <<"api", "bookings">>
         /\ pc = "create" <=> ~Over(2)
    /\ Failed(1) \/ (FoundUser /\ ~FoundTrainer) =>
         SentEnvelope(400, InvalidTrainer) /\ Len(upstream) = 1

C13_Witness ==
  /\ OnBooking /\ SentEnvelope(400, InvalidTrainer)
  /\ Len(upstream) = 1 /\ AnswerOf(1) = Answer(200, UserBody("client"))

\* reachability of the other half of C13: the create call on its way
C13_WitnessCreate ==
  /\ OnBooking /\ pc = "create" /\ Len(upstream) = 2
  /\ AnswerOf(1) = Answer(200, UserBody("trainer")) /\ upstream[2].status = "pending"

\* call i got no answer: a transport-level fault
Fault(i) == Len(upstream) >= i /\ upstream[i].status = "fault"

\* call i was answered with an error status
Refused(i) == Over(i) /\ upstream[i].status = "answered" /\ ~IsSuccess(AnswerOf(i).status)

\* the caller got the backend's own answer to call i
PassedThrough(i) ==
  /\ pc = "done" /\ res.sent = 1
  /\ res.status = AnswerOf(i).status /\ res.body = Serialize(AnswerOf(i).body)

\* C14 as stated: a transport-level fault at the trainer check or at the
\* create call ends the request with BOOKING_FAILED at 500; an error answer
\* of the backend at either step is passed through, status and body.
C14_FaultsAtEitherStep ==
  OnBooking /\ pc = "done" =>
    \A i \in {1, 2} :
      /\ Fault(i) => SentEnvelope(500, BookingFailed)
      /\ Refused(i) => PassedThrough(i)

\* C14 amended: at the create call a transport-level fault ends the request
\* with BOOKING_FAILED at 500 and an error answer of the scheduling backend
\* is passed through, status and body; at the trainer check every failure,
\* a fault as well as an error answer, ends it with INVALID_TRAINER at 400
\* and nothing of the identity backend's answer is passed on.
C14_FaultsAtCreateOnly ==
  OnBooking /\ pc = "done" =>
    /\ Fault(2) => SentEnvelope(500, BookingFailed)
    /\ Refused(2) => PassedThrough(2)
    /\ Fault(1) \/ Refused(1) => SentEnvelope(400, InvalidTrainer) /\ Len(upstream) = 1

C14_Witness ==
  /\ OnBooking /\ Fault(1) /\ SentEnvelope(400, InvalidTrainer)

\* reachability of the create half of C14
C14_WitnessCreate ==
  /\ OnBooking /\ pc = "done" /\ Refused(2) /\ res.status = 409
  /\ res.body = RefusedBody("SLOT_TAKEN")

C14_WitnessFault ==
  /\ OnBooking /\ Fault(2) /\ SentEnvelope(500, BookingFailed)

\* C15: once the create call is issued and the scheduling backend answers,
\* the caller receives exactly that answer, status and body, whatever the
\* status: a success as well as a failure.
C15_CreateAnswerRelayed ==
  OnBooking /\ pc = "done" /\ Len(upstream) = 2 /\ upstream[2].status = "answered" =>
    PassedThrough(2)

\* what the code keeps of C15: the body is the backend's for every status,
\* the status is the backend's for every failure
C15_BodyRelayed ==
  OnBooking /\ pc = "done" /\ Len(upstream) = 2 /\ upstream[2].status = "answered" =>
    /\ res.sent = 1 /\ res.body = Serialize(AnswerOf(2).body)
    /\ ~IsSuccess(AnswerOf(2).status) => res.status = AnswerOf(2).status

\* the run that refutes C15: the backend answers 200, the caller reads 201
C15_FailingRun ==
  /\ OnBooking /\ pc = "done" /\ Len(upstream) = 2
  /\ AnswerOf(2) = Answer(200, CreatedBody)
  /\ res.status = 201 /\ res.body = CreatedBody

(***************************************************************************)
(* Route dispatch.                                                         *)
(***************************************************************************)
\* the documented prefixes /api/<name> and the backend each is bound to
Declared ==
  [name \in {"auth", "users"} |-> "user"]
    @@ [name \in {"exercises", "workouts", "diets", "programs"} |-> "training"]
    @@ [name \in {"availability", "bookings", "sessions"} |-> "schedule"]
    @@ [name \in {"metrics", "workout-logs", "health-records", "analytics", "achievements"}
          |-> "progress"]
    @@ [name \in {"notifications"} |-> "notification"]

UnderDeclared(path) ==
  Len(path) >= 2 /\ path[1] = "api" /\ path[2] \in DOMAIN Declared

\* the request is for one of the aggregation endpoints
Aggregation(r) ==
  \/ r.method = "GET" /\ Len(r.path) = 4
       /\ SubSeq(r.path, 1, 3) \in {<<"api", "dashboard", "client">>,
                                    <<"api", "dashboard", "trainer">>}
  \/ r.method = "GET" /\ r.path = <<"api", "dashboard", "admin">>
  \/ r.method = "POST" /\ r.path = <<"api", "bookings", "validated">>

HealthCheck(r) == r.method = "GET" /\ r.path = <<"health">>

\* the request has come past the limiter and the body parser to the router,
\* and the router has acted
Dispatched == pc \in {"verifyRoute", "handler", "proxy", "proxying", "await",
                      "trainerCheck", "create"}
                \/ (pc = "done" /\ res.status # 429 /\ req.raw # NotJson)

C16_WitnessNotFound ==
  /\ req.path = <<"api", "unknown", "x">> /\ pc = "done" /\ res.status = 404
  /\ upstream = <<>>

(***************************************************************************)
(* Unreachable backends.                                                   *)
(***************************************************************************)
OnProxy == req.route = "proxy"

\* the proxied request at hand could not reach its backend
Unreachable == OnProxy /\ Len(upstream) = 1 /\ upstream[1].status = "fault"

Originated ==
  /\ pc = "done" /\ res.sent = 1
  /\ req.route # "health"
  /\ ~(OnProxy /\ upstream[1].status = "answered")
  /\ ~(OnBooking /\ Len(upstream) = 2 /\ upstream[2].status = "answered")

\* {success, data or error}: a boolean success and exactly one of data and
\* error, the one that matches it
SuccessAndOne(b) ==
  /\ b.t = "object" /\ "success" \in DOMAIN b.o /\ b.o.success.t = "boolean"
  /\ b.o.success.b => "data" \in DOMAIN b.o /\ "error" \notin DOMAIN b.o
  /\ ~b.o.success.b => "error" \in DOMAIN b.o /\ "data" \notin DOMAIN b.o

\* C18: every response the gateway writes itself (rate-limit denial,
\* FORBIDDEN, dashboard success and error, INVALID_TRAINER, BOOKING_FAILED,
\* proxy error, not-found, internal error) has the shape {success, data or
\* error, timestamp}: a boolean success, exactly one of data and error, and
\* a timestamp at the top level.
C18_EnvelopeWithTimestamp ==
  Originated => SuccessAndOne(res.body) /\ "timestamp" \in DOMAIN res.body.o

\* what the code keeps of C18: success and exactly one of data and error;
\* the timestamp is at the top level of the success envelopes only, inside
\* error for the proxy error, not-found and internal error, and absent from
\* the others
C18_EnvelopeAsWritten ==
  Originated =>
    /\ SuccessAndOne(res.body)
    /\ "timestamp" \in DOMAIN res.body.o <=> res.body.o.success.b
    /\ ~res.body.o.success.b =>
         ("timestamp" \in DOMAIN res.body.o.error.o
            <=> res.body.o.error.o.code
                  \in {Str("SERVICE_UNAVAILABLE"), Str("NOT_FOUND"), Str("INTERNAL_ERROR")})

\* runs that refute C18: a not-found answer, whose timestamp is inside
\* error, and a denial of the limiter, which has none
C18_FailingRun ==
  /\ pc = "done" /\ res.status = 404 /\ req.path = <<"api", "unknown", "x">>
  /\ DOMAIN res.body.o = {"success", "error"}
  /\ "timestamp" \in DOMAIN res.body.o.error.o

C18_FailingRunDenial ==
  /\ pc = "done" /\ res.status = 429 /\ res.body = RateLimitExceeded
  /\ DOMAIN res.body.o = {"success", "error"}
  /\ DOMAIN res.body.o.error.o = {"code", "message"}

(***************************************************************************)
(* Admission.                                                              *)
(***************************************************************************)
UnderApi == req # NoRequest /\ Mounted(<<"api">>, req.path)

\* the limiter has counted the request at hand
Counted == req.rateLimit.t = "object"

\* which request of its client it is within the window, by that count
Ordinal == req.rateLimit.o.current.n

Ceiling == limiter.max.n

\* the answer is the denial of the limiter, and nothing behind the limiter
\* has seen the request
DeniedAdmission ==
  /\ pc = "done" /\ res.sent = 1 /\ res.status = 429 /\ res.body = RateLimitExceeded
  /\ nextLog = <<>> /\ req.user = UNDEF /\ req.route = "none"
  /\ calls = <<>> /\ upstream = <<>>

\* the limiter's verdict on a request it has counted
CeilingKept ==
  Counted =>
    /\ UnderApi /\ Ordinal \in 1..MaxHits
    /\ Ordinal <= Ceiling => res.status # 429 /\ pc # "limit"
    /\ Ordinal > Ceiling => DeniedAdmission

\* a request's place in its client's window: the limiter's count of it or,
\* when the limiter has not counted it, one more than the count so far
PlaceInWindow == IF Counted THEN Ordinal ELSE hits[req.ip] + 1

\* C19: of the requests of one client under /api/ within one window, those
\* up to the ceiling are admitted and every one beyond it is answered 429
\* with the RATE_LIMIT_EXCEEDED body and reaches neither the annotator, the
\* router, a handler nor a backend; one client's exhaustion never denies
\* another.
C19_CeilingPerClient ==
  /\ CeilingKept
  /\ pc = "done" /\ res.status = 429 => Counted /\ Ordinal > Ceiling
  /\ ~skip(env) /\ UnderApi /\ pc = "done" /\ PlaceInWindow > Ceiling => DeniedAdmission

\* what the code keeps of C19: the claim for the requests whose body the
\* parser accepts, each counted once for its own client alone
C19_CeilingForParsedRequests ==
  /\ [](/\ Ceiling = 2
        /\ ~skip(env) /\ UnderApi /\ req.raw # NotJson
             /\ pc \notin {"parse", "correlate", "limit"} => Counted
        /\ CeilingKept
        /\ pc = "done" /\ res.status = 429 => Counted /\ Ordinal > Ceiling)
  /\ [][~Counted /\ Counted' =>
          /\ Ordinal' = hits[req.ip] + 1
          /\ hits' = [hits EXCEPT ![req.ip] = @ + 1]]_vars
  /\ [][\A k \in Clients :
          hits'[k] # hits[k] => \/ hits'[k] = 0
                                \/ ~Counted /\ Counted' /\ k = req.ip]_vars

\* the run that refutes C19: a client that has used up its window sends a
\* body that is not JSON; the request is not counted and is answered by the
\* error handler
C19_FailingRun ==
  /\ ~skip(env) /\ UnderApi /\ req.raw = NotJson
  /\ hits[req.ip] >= Ceiling /\ PlaceInWindow > Ceiling
  /\ pc = "done" /\ res.status = 500 /\ ~Counted

C19_DenialReached ==
  /\ req.ip = "c1" /\ Counted /\ Ordinal = 3 /\ DeniedAdmission
  /\ req.path = <<"api", "bookings", "123">>

\* the exhaustion of one client beside the admission of another
C19_OtherClientAdmitted ==
  /\ hits["c2"] = 3 /\ req.ip = "c1" /\ Counted /\ Ordinal = 1
  /\ pc = "proxying" /\ Len(upstream) = 1

\* the operating mode of the process
Mode == Get(env, "NODE_ENV")

InDevelopment == Mode = Str("development")

\* C20: the limiter is bypassed when and only when the operating mode is
\* development.  In development no request is counted or answered 429,
\* whatever the number of requests; in production, in test and with the mode
\* unset the limiter counts every request under /api/ that it is handed and
\* denies the one beyond the ceiling.
C20_BypassIffDevelopment ==
  /\ [](/\ Mode \in {UNDEF, Str("development"), Str("production"), Str("test")}
        /\ InDevelopment =>
             /\ ~Counted /\ res.status # 429
             /\ \A k \in Clients : hits[k] = 0
        /\ ~InDevelopment => CeilingKept)
  /\ [][pc = "limit" /\ pc' # "limit" /\ UnderApi =>
          IF InDevelopment
          THEN pc' = "verifyGlobal" /\ ~Counted' /\ hits' = hits /\ res' = res
          ELSE /\ Counted' /\ Ordinal' = hits[req.ip] + 1
               /\ hits' = [hits EXCEPT ![req.ip] = @ + 1]
               /\ IF hits[req.ip] >= Ceiling
                  THEN DeniedAdmission'
                  ELSE pc' = "verifyGlobal" /\ res' = res]_vars

\* in development a request under /api/ passes the limiter uncounted and
\* reaches its backend, as does every request after it
C20_Witness ==
  /\ InDevelopment /\ Ceiling = 2 /\ UnderApi /\ ~Counted
  /\ req.path = <<"api", "bookings", "123">>
  /\ pc = "proxying" /\ Len(upstream) = 1

\* with the mode unset the third request of a client is denied
C20_WitnessUnset ==
  /\ Mode = UNDEF /\ Counted /\ Ordinal = 3 /\ DeniedAdmission

\* in test the third request of a client is denied
C20_WitnessTest ==
  /\ Mode = Str("test") /\ Counted /\ Ordinal = 3 /\ DeniedAdmission

\* in production the third request of a client is denied
C20_WitnessProduction ==
  /\ Mode = Str("production") /\ Counted /\ Ordinal = 3 /\ DeniedAdmission

(***************************************************************************)
(* The configuration of the limiter.                                       *)
(***************************************************************************)
\* the text is a whole number written in decimal digits
IsNumeral(c) ==
  LET d == IF c # <<>> /\ c[1] = "-" THEN Tail(c) ELSE c
  IN  d # <<>> /\ \A i \in 1..Len(d) : d[i] \in Digits

NumeralValue(c) == IF c[1] = "-" THEN 0 - Decimal(Tail(c)) ELSE Decimal(c)

\* the value is no number in any notation: it is unset, empty, or holds a
\* character that no sign, fraction, base prefix or padding accounts for
NotANumber(v) ==
  \/ v = UNDEF
  \/ v.t = "string" /\ v.chars = <<>>
  \/ v.t = "string"
       /\ \E i \in 1..Len(v.chars) :
            v.chars[i] \notin Digits \cup WhiteSpace \cup {"-", "+", ".", "x"}

Window == Get(env, "RATE_LIMIT_WINDOW_MS")

Maximum == Get(env, "RATE_LIMIT_MAX_REQUESTS")

\* the value of an option as documented
AsGiven(option, v, default) ==
  /\ v.t = "string" /\ IsNumeral(v.chars) => option = Num(NumeralValue(v.chars))
  /\ NotANumber(v) => option = Num(default)

\* C21: the window is 60000 ms and the ceiling 1000 requests by default;
\* a numeric value of RATE_LIMIT_WINDOW_MS or RATE_LIMIT_MAX_REQUESTS is
\* used as given and a value that is not numeric reverts to the default.
C21_OverridesAsGiven ==
  /\ AsGiven(limiter.windowMs, Window, DefaultWindowMs)
  /\ AsGiven(limiter.max, Maximum, DefaultMax)

\* what the code keeps of C21: the defaults when the value is unset or
\* does not begin with a number, and a whole number other than 0 as given
C21_DefaultsAndWholeNumbers ==
  /\ DefaultWindowMs = 60000 /\ DefaultMax = 1000
  /\ \A o \in {<<limiter.windowMs, Window, DefaultWindowMs>>, <<limiter.max, Maximum, DefaultMax>>} :
       /\ o[2] = UNDEF \/ ParseInt(o[2]) = NaN => o[1] = Num(o[3])
       /\ o[2] # UNDEF /\ IsNumeral(o[2].chars) /\ NumeralValue(o[2].chars) # 0 =>
            o[1] = Num(NumeralValue(o[2].chars))

\* the runs that refute C21: a ceiling of 0 reverts to 1000, and a window
\* written 2s is taken as 2 ms
C21_FailingRun ==
  /\ Maximum = Chars(<<"0">>) /\ limiter.max = Num(DefaultMax)
  /\ pc = "proxying" /\ Counted /\ Ordinal = 3

C21_FailingRunSuffix ==
  /\ Window = Chars(<<"2", "s">>) /\ limiter.windowMs = Num(2) /\ limiter.max = Num(2)
  /\ Counted /\ Ordinal = 3 /\ DeniedAdmission

(***************************************************************************)
(* The headers of the responses.                                           *)
(***************************************************************************)
Answered == pc = "done" /\ res.sent = 1

RateHeaders == {"RateLimit-Limit", "RateLimit-Remaining", "RateLimit-Reset"}

Carries(names) == \A h \in names : resHeaders[h] # UNDEF

\* C22: every response to a request under /api/, whatever its kind and
\* whatever the operating mode, carries the rate-limit headers (limit,
\* remaining, reset) and the correlation-id header.
C22_HeadersOnEveryResponse ==
  Answered /\ UnderApi => Carries(RateHeaders) /\ Carries({"X-Correlation-ID"})

\* what the code keeps of C22: a request whose body parsed is answered with
\* its correlation id, and with the state of its client's window when the
\* limiter has counted it
C22_HeadersOfCountedRequests ==
  /\ req # NoRequest /\ req.raw # NotJson /\ pc \notin {"parse", "correlate"} =>
       resHeaders["X-Correlation-ID"] = req.correlationId /\ req.correlationId.t = "string"
  /\ Counted =>
       /\ resHeaders["RateLimit-Limit"] = limiter.max
       /\ resHeaders["RateLimit-Remaining"] =
            Num(IF Ceiling > Ordinal THEN Ceiling - Ordinal ELSE 0)
       /\ resHeaders["RateLimit-Reset"] = SecondsToReset
  /\ ~Counted => \A h \in RateHeaders : resHeaders[h] = UNDEF

\* the runs that refute C22: in development a proxied answer goes out
\* without the rate-limit headers; in production a body that is not JSON is
\* answered without any of the headers
C22_FailingRun ==
  /\ InDevelopment /\ Answered /\ UnderApi /\ req.route = "proxy" /\ res.status = 200
  /\ Carries({"X-Correlation-ID"}) /\ \A h \in RateHeaders : resHeaders[h] = UNDEF

C22_FailingRunUnparsed ==
  /\ Mode = Str("production") /\ Answered /\ UnderApi /\ req.raw = NotJson
  /\ res.status = 500 /\ resHeaders = NoHeaders

(***************************************************************************)
(* The order of the annotator, the limiter and the dispatch.               *)
(***************************************************************************)
\* the Identity Annotator (the verifyToken mounted on /api/) has handled
\* the request
Annotated == Len(nextLog) >= 1 /\ nextLog[1].at = "global"

\* C23 as stated: every inbound request passes through the Identity
\* Annotator first and the Admission Limiter second, and only then is
\* dispatched to a proxy or to an aggregation endpoint.
C23_AnnotatorThenLimiter ==
  /\ Counted => Annotated
  /\ Dispatched => Annotated

\* C23, amended: a request under /api/ passes through the Admission Limiter
\* first and the Identity Annotator second, and only then is dispatched; a
\* request the limiter denies never reaches the annotator, and a request
\* outside /api/ passes through neither.
C23_LimiterThenAnnotator ==
  /\ Annotated => /\ UnderApi
                  /\ InDevelopment \/ Counted
                  /\ res.status # 429
  /\ Dispatched /\ UnderApi => Annotated
  /\ req.route # "none" /\ UnderApi => Annotated
  /\ ~UnderApi => ~Annotated /\ ~Counted

\* a counted request is annotated and then sent on to its backend
C23_Witness ==
  /\ ~InDevelopment /\ Counted /\ Ordinal = 1 /\ Annotated
  /\ pc = "proxying" /\ Len(upstream) = 1 /\ req.route = "proxy"

\* right after the limiter has counted it, the request is not yet annotated
C23_WitnessBetween ==
  /\ Counted /\ pc = "verifyGlobal" /\ ~Annotated /\ req.user = UNDEF

\* the health check is answered without annotator or limiter
C23_WitnessHealth ==
  /\ ~InDevelopment /\ req.route = "health" /\ Answered /\ ~Annotated /\ ~Counted

(***************************************************************************)
(* Unexpected faults.                                                      *)
(***************************************************************************)
\* the dashboard at hand reads the payload of call i
ReadsSlot(i) == OnClient \/ OnAdmin \/ (OnTrainer /\ i <= 3)

\* an exception was raised inside the dashboard handler: a call fulfilled
\* with the payload null, of which the handler reads a property
ThrewInDashboard ==
  /\ OnDashboard /\ Len(calls) = 4 /\ Answered
  /\ \E i \in 1..4 : ReadsSlot(i) /\ calls[i].status = "fulfilled" /\ calls[i].body = NULL

\* an exception was raised inside the booking handler: the trainer check
\* was answered without a user, of which the handler reads the role
ThrewInBooking ==
  /\ OnBooking /\ Answered /\ Len(upstream) >= 1
  /\ upstream[1].answer = Answer(200, EmptyObj)

\* an exception was raised ahead of a proxy route: the body did not parse
ThrewInParser == UnderApi /\ req.raw = NotJson /\ Answered

\* the generic envelope of the error handler, with the request's
\* correlation identifier
IsInternalError ==
  /\ res.status = 500
  /\ req.correlationId.t = "string"
  /\ \E t \in 0..MaxNow : res.body = InternalError(req.correlationId, t)

\* C24: an unexpected fault raised while a request is handled, in a proxy
\* route or inside an aggregation handler, is answered with the generic
\* internal-error envelope, which carries the correlation identifier of the
\* request and nothing of the cause.
C24_FaultsSurfaceAsInternalError ==
  ThrewInDashboard \/ ThrewInBooking \/ ThrewInParser => IsInternalError

\* what the code keeps of C24: each of these faults is answered 500 with a
\* fixed envelope; a fault inside a handler is answered with the envelope of
\* that handler, and the correlation identifier travels in the header only
C24_FaultsAnsweredByFixedEnvelopes ==
  /\ ThrewInDashboard =>
       /\ res.status = 500 /\ res.body = DashboardError
       /\ resHeaders["X-Correlation-ID"] = req.correlationId
  /\ ThrewInBooking =>
       /\ res.status = 500 /\ res.body = BookingFailed
       /\ resHeaders["X-Correlation-ID"] = req.correlationId
  /\ ThrewInParser =>
       /\ res.status = 500
       /\ \E t \in 0..MaxNow : res.body = Serialize(InternalError(UNDEF, t))
       /\ "correlationId" \notin DOMAIN res.body.o.error.o

\* the run that refutes C24: the profile call of a client dashboard fulfils
\* with null and the answer is DASHBOARD_ERROR, without the identifier
C24_FailingRun ==
  /\ ThrewInDashboard /\ OnClient /\ calls[1].body = NULL
  /\ res.status = 500 /\ res.body = DashboardError
  /\ DOMAIN res.body.o.error.o = {"code", "message"}

C24_FailingRunBooking == ThrewInBooking /\ res.body = BookingFailed

C24_FailingRunParser == ThrewInParser /\ req.correlationId = UNDEF

(***************************************************************************)
(* The fan-out of the dashboards.                                          *)
(***************************************************************************)
Pending(i) == calls[i].status = "pending"

\* C25: a dashboard answers only after all four of its calls have settled,
\* each fulfilled or rejected: no response is sent while a call of the
\* request is pending, and the rejection of one call does not bring the
\* response forward.
C25_AnswerAfterAllSettle ==
  /\ [](/\ OnDashboard /\ Len(calls) = 4 /\ (\E i \in 1..4 : Pending(i)) =>
             res = NoResponse /\ pc = "await"
        /\ OnDashboard /\ Len(calls) = 4 /\ res.sent > 0 => Settled(calls))
  /\ [][OnDashboard /\ Len(calls) = 4 /\ res'.sent > res.sent =>
          Settled(calls) /\ calls' = calls]_vars

\* one call has rejected, its three siblings are pending and nothing is sent
C25_Witness ==
  /\ OnDashboard /\ pc = "await" /\ res = NoResponse
  /\ calls[2].status = "rejected"
  /\ \A i \in {1, 3, 4} : Pending(i)

\* the answer that follows the last settlement, with a rejection among them
C25_WitnessAnswered ==
  /\ OnDashboard /\ Answered /\ Len(calls) = 4 /\ Settled(calls)
  /\ calls[2].status = "rejected" /\ calls[1].status = "fulfilled"
  /\ Succeeded

\* the calls of the dashboard at hand, in the order of issue
Issued ==
  CASE OnClient -> ClientCalls(PathId, req.authorization)
    [] OnTrainer -> TrainerCalls(PathId, req.authorization)
    [] OnAdmin -> AdminCalls(req.authorization)

\* slot i belongs to the i-th call issued, and holds that call's outcome
OwnOutcome(i) ==
  /\ calls[i].service = Issued[i].service /\ calls[i].url = Issued[i].url
  /\ calls[i].status = "fulfilled" => calls[i].body \in Replies(Issued[i], backends)
  /\ calls[i].status # "fulfilled" => calls[i].body = UNDEF

\* C26: with the outcome of each call fixed, the payload of a dashboard is
\* the same whatever the order in which the four calls settle: every result
\* is bound to its role by its position of issue, and each field of the
\* answer reads the slot of its role.
C26_BoundByPositionOfIssue ==
  OnDashboard /\ Len(calls) = 4 =>
    /\ \A i \in 1..4 : OwnOutcome(i)
    /\ Answered => Succeeded /\ FieldsAsDocumented

\* the last call issued settles first, and the answer is still pending
C26_Witness ==
  /\ OnClient /\ pc = "await"
  /\ calls[4].status = "fulfilled" /\ \A i \in 1..3 : Pending(i)

\* the first call issued settles first
C26_WitnessInOrder ==
  /\ OnClient /\ pc = "await"
  /\ calls[1].status = "fulfilled" /\ \A i \in 2..4 : Pending(i)

\* the answer, with a profile and programs of different shapes each in its
\* own field
C26_WitnessAnswered ==
  /\ OnClient /\ Answered /\ AllFulfilled /\ Succeeded
  /\ Payload["profile"] = ItemBody.o.data /\ Payload["active_programs"] = ListBody.o.data

(***************************************************************************)
(* Backend calls are issued once.                                          *)
(***************************************************************************)
\* the backend calls the request at hand has issued so far
IssuedSoFar == Len(calls) + Len(upstream)

\* C27: no backend call is retried.  Within one request a dashboard that is
\* authorized issues exactly its four calls, a validated booking at most two
\* (the trainer check, then the create), a proxied request one; a call that
\* has settled, fulfilled or rejected, is neither issued again nor changed.
C27_NoCallIsRetried ==
  /\ [](/\ OnDashboard =>
             /\ upstream = <<>> /\ Len(calls) \in {0, 4}
             /\ Len(calls) = 4 => \A i \in 1..4 : OwnOutcome(i)
             /\ pc = "await" \/ (pc = "done" /\ res.status # 403) => Len(calls) = 4
        /\ OnBooking =>
             /\ calls = <<>> /\ Len(upstream) <= 2
             /\ Len(upstream) >= 1 => upstream[1].via = "trainerCheck"
             /\ Len(upstream) = 2 => upstream[2].via = "create" /\ Over(1)
        /\ OnProxy =>
             /\ calls = <<>> /\ Len(upstream) <= 1
             /\ pc \in {"proxying", "done"} => Len(upstream) = 1 /\ upstream[1].via = "proxy"
        /\ req.route \in {"none", "health"} => IssuedSoFar = 0)
  /\ [][pc' # "idle" =>
          /\ IssuedSoFar' >= IssuedSoFar
          /\ Len(calls') >= Len(calls) /\ Len(upstream') >= Len(upstream)
          /\ \A i \in 1..Len(calls) :
               /\ calls'[i].service = calls[i].service /\ calls'[i].url = calls[i].url
               /\ ~Pending(i) => calls'[i] = calls[i]
          /\ \A i \in 1..Len(upstream) :
               /\ upstream'[i].via = upstream[i].via /\ upstream'[i].path = upstream[i].path
               /\ Over(i) => upstream'[i] = upstream[i]]_vars

\* a dashboard answered with a rejected call among its four
C27_Witness ==
  /\ OnDashboard /\ Answered /\ Len(calls) = 4
  /\ calls[1].status = "rejected" /\ calls[3].status = "rejected"

\* a booking refused by the scheduling backend, after its two calls
C27_WitnessBooking ==
  /\ OnBooking /\ Answered /\ Len(upstream) = 2 /\ Failed(2)

\* a proxied request whose backend could not be reached, after its one call
C27_WitnessProxy == Unreachable /\ Answered /\ res.status = 502

\* C28: the four calls of a dashboard are issued together, before the
\* handler suspends: the handler never waits with fewer than four calls
\* under way, no call waits for a sibling to settle, and the rejection of a
\* call keeps no sibling from being issued or from settling.
C28_IssuedTogether ==
  /\ [](/\ OnDashboard /\ pc = "await" => Len(calls) = 4
        /\ OnDashboard /\ pc = "await" =>
             \A i \in 1..4 : Pending(i) => ENABLED Settle(i))
  /\ [][OnDashboard /\ calls = <<>> /\ calls' # <<>> =>
          /\ pc = "handler" /\ pc' = "await"
          /\ calls' = Issued
          /\ \A i \in 1..4 : calls'[i].status = "pending" /\ calls'[i].auth = req.authorization]_vars

\* the first call has rejected and the last one has fulfilled after it or
\* before it, while the two between them are under way
C28_Witness ==
  /\ OnTrainer /\ pc = "await"
  /\ calls[1].status = "rejected" /\ calls[4].status = "fulfilled"
  /\ Pending(2) /\ Pending(3)

\* all four are under way at once
C28_WitnessAllPending ==
  /\ OnTrainer /\ pc = "await" /\ \A i \in 1..4 : Pending(i)

(***************************************************************************)
(* The route table.                                                        *)
(***************************************************************************)
\* the declared prefixes that match the path of the request at hand
Hits == {i \in 1..Len(routes) : Mounted(routes[i].path, req.path)}

\* the table declared in the opposite order
Reversed == [i \in 1..Len(routes) |-> routes[Len(routes) + 1 - i]]

\* a table in which every path under /api/ matches two prefixes: a broad
\* one declared first, or declared last
BroadFirst == <<[path |-> <<"api">>, target |-> "broad"]>> \o routes

BroadLast == routes \o <<[path |-> <<"api">>, target |-> "broad"]>>

\* C29: at most one of the 15 declared prefixes matches a request path,
\* prefixes matching by whole segments, and every prefix is bound to one
\* backend: the backend chosen for a path is unique and does not depend on
\* the order of declaration.  Where two prefixes do match, the one declared
\* first wins.
C29_OnePrefixOneBackend ==
  /\ Len(routes) = 15
  /\ \A i, j \in 1..Len(routes) : routes[i].path = routes[j].path => i = j
  /\ \A i \in 1..Len(routes) :
       routes[i].target \in {"user", "training", "schedule", "progress", "notification"}
  /\ req # NoRequest =>
       /\ Cardinality(Hits) <= 1
       /\ Hits = {i \in 1..Len(routes) :
                    /\ Len(req.path) >= 2
                    /\ req.path[1] = routes[i].path[1] /\ req.path[2] = routes[i].path[2]}
       /\ MatchIn(Reversed, req.path) = MatchIn(routes, req.path)
       /\ \A i \in Hits : MatchIn(routes, req.path).target = routes[i].target
       /\ Hits = {} => MatchIn(routes, req.path) = NoMatch
       /\ OnProxy => \E i \in Hits : req.target = routes[i].target /\ req.baseUrl = routes[i].path
       /\ UnderApi => MatchIn(BroadFirst, req.path).target = "broad"
       /\ Hits # {} => MatchIn(BroadLast, req.path) = MatchIn(routes, req.path)
       /\ Hits = {} /\ UnderApi => MatchIn(BroadLast, req.path).target = "broad"

\* a path that names two prefixes goes to the backend of the one it begins
\* with
C29_Witness ==
  /\ req.path = <<"api", "bookings", "users", "1">> /\ OnProxy
  /\ req.target = "schedule" /\ pc = "proxying"

\* a path that begins like a prefix, but not by whole segments, matches none
C29_WitnessNearMiss ==
  /\ req.path = <<"api", "userss", "1">> /\ Hits = {} /\ Answered /\ res.status = 404

(***************************************************************************)
(* Aggregation endpoints and the route table.                              *)
(***************************************************************************)
UnderBookings == req # NoRequest /\ Mounted(<<"api", "bookings">>, req.path)

\* the calls made for the request at hand are those of a handler of the
\* gateway, none is the request forwarded by a proxy
NotForwarded ==
  /\ req.target = "none" /\ req.baseUrl = <<>>
  /\ \A i \in 1..Len(upstream) : upstream[i].via \in {"trainerCheck", "create"}
  /\ pc \notin {"proxy", "proxying"}

\* C30: a request that matches an aggregation endpoint (the three
\* dashboards, POST /api/bookings/validated) is handled by that endpoint and
\* never forwarded by a proxy, also where its path lies under a declared
\* prefix (/api/bookings); every other method or path under /api/bookings
\* goes to the scheduling backend.
C30_AggregationBeforeProxy ==
  /\ req # NoRequest /\ Aggregation(req) /\ Dispatched =>
       /\ req.route = CASE OnClient -> "clientDashboard"
                        [] OnTrainer -> "trainerDashboard"
                        [] OnAdmin -> "adminDashboard"
                        [] OTHER -> "validatedBooking"
       /\ NotForwarded
  /\ req # NoRequest /\ Aggregation(req) => NotForwarded
  /\ UnderBookings /\ ~Aggregation(req) /\ Dispatched =>
       /\ req.route = "proxy" /\ req.target = "schedule"
       /\ calls = <<>>
       /\ pc # "proxy" =>
            /\ Len(upstream) = 1 /\ upstream[1].via = "proxy"
            /\ upstream[1].service = "schedule"
            /\ upstream[1].method = req.method /\ upstream[1].path = req.path

\* the validated booking makes its own calls, under the prefix /api/bookings
C30_Witness ==
  /\ req.method = "POST" /\ req.path = BookingPath /\ UnderBookings
  /\ OnBooking /\ pc = "create" /\ Len(upstream) = 2 /\ NotForwarded

\* the same path with another method is forwarded to the scheduling backend
C30_WitnessOtherMethod ==
  /\ req.method \in {"GET", "PUT"} /\ req.path = BookingPath
  /\ OnProxy /\ pc = "proxying" /\ upstream[1].service = "schedule"

\* a longer path with the same method is forwarded as well
C30_WitnessLongerPath ==
  /\ req.method = "POST" /\ req.path = BookingPath \o <<"x">>
  /\ OnProxy /\ pc = "proxying" /\ upstream[1].service = "schedule"

(***************************************************************************)
(* What travels with a backend call.                                       *)
(***************************************************************************)
\* the correlation identifier has been generated for the request at hand
Identified == req.correlationId \in {Str(u) : u \in Uuids}

\* the X-Correlation-ID values of the backend calls of the request at hand
CorrelationsSent ==
  {calls[i].correlation : i \in DOMAIN calls}
    \cup {upstream[i].correlation : i \in DOMAIN upstream}

\* C31: the correlation identifier of a request is generated once at
\* ingress and never changes, and every backend call issued while the
\* request is handled (the proxied call, every fan-out call, the trainer
\* check and the create call) carries it, the same value the caller
\* receives in the X-Correlation-ID response header.
C31_IdentifierOnEveryCall ==
  /\ Identified => resHeaders["X-Correlation-ID"] = req.correlationId
  /\ CorrelationsSent \subseteq {req.correlationId}
  /\ Len(calls) + Len(upstream) > 0 => Identified

\* what the code keeps of C31: once generated the identifier stays as it is
\* until the exchange is over, and so does the response header
C31_GeneratedOnce ==
  [][Identified /\ pc' # "idle" =>
       /\ req'.correlationId = req.correlationId
       /\ resHeaders'["X-Correlation-ID"] = req.correlationId]_vars

\* what the code keeps of C31: the proxied call carries the identifier; the
\* calls of the aggregation endpoints carry none
C31_IdentifierOnProxiedCallsOnly ==
  /\ Identified => resHeaders["X-Correlation-ID"] = req.correlationId
  /\ \A i \in DOMAIN upstream :
       IF upstream[i].via = "proxy"
       THEN Identified /\ upstream[i].correlation = req.correlationId
       ELSE upstream[i].correlation = UNDEF
  /\ \A i \in DOMAIN calls : calls[i].correlation = UNDEF

\* the run that refutes C31: the trainer check of a validated booking goes
\* out without the identifier of its request
C31_FailingRun ==
  /\ Identified /\ pc = "trainerCheck"
  /\ upstream[1].via = "trainerCheck" /\ upstream[1].correlation = UNDEF

\* the four calls of a dashboard go out without it as well
C31_FailingRunFanOut ==
  /\ Identified /\ pc = "await" /\ Len(calls) = 4
  /\ \A i \in 1..4 : calls[i].correlation = UNDEF

\* a proxied call with the identifier of its request
C31_ProxiedRun ==
  /\ pc = "proxying" /\ upstream[1].correlation = Str("uuid-2")
  /\ resHeaders["X-Correlation-ID"] = Str("uuid-2")

\* the proxied call of the request at hand has gone out
Forwarded == Len(upstream) = 1 /\ upstream[1].via = "proxy"

\* the methods for which onProxyReq writes the body anew
Rewriting == {"POST", "PUT", "PATCH"}

\* C32: a proxied request reaches its backend with the same method and the
\* same body as the gateway received, for every method and every body,
\* structured or not: the body is never dropped, altered or given another
\* type.
C32_MethodAndBodyVerbatim ==
  Forwarded => upstream[1].method = req.method /\ upstream[1].data = req.raw

\* what the code keeps of C32: the method always; the body when no parser
\* read it, and a JSON body with keys under POST, PUT and PATCH.  A form
\* arrives as JSON, and a parsed body that is not written anew does not
\* arrive at all
C32_BodyKeptUnlessParsed ==
  Forwarded =>
    /\ upstream[1].method = req.method
    /\ ~StreamRead(req.raw) => upstream[1].data = req.raw
    /\ StreamRead(req.raw) /\ req.method \in Rewriting /\ KeyCount(req.body) > 0 =>
         upstream[1].data = Obj(req.raw.o)
    /\ StreamRead(req.raw) /\ (req.method \notin Rewriting \/ KeyCount(req.body) = 0) =>
         upstream[1].data = UNDEF

\* the run that refutes C32: a DELETE with a JSON body is forwarded without
\* its body
C32_FailingRun ==
  /\ Forwarded /\ req.method = "DELETE" /\ req.raw = BookingBody
  /\ upstream[1].data = UNDEF

\* a form posted to a backend arrives as a JSON object
C32_FailingRunForm ==
  /\ Forwarded /\ req.method = "POST" /\ req.raw.t = "form"
  /\ upstream[1].data = Obj(req.raw.o)

\* the empty JSON object posted to a backend does not arrive
C32_FailingRunEmpty ==
  /\ Forwarded /\ req.method = "POST" /\ req.raw = EmptyObj
  /\ upstream[1].data = UNDEF

\* a JSON body under POST and a text body arrive as they were sent
C32_KeptRun ==
  /\ Forwarded /\ req.method = "POST" /\ req.raw = BookingBody
  /\ upstream[1].data = BookingBody

C32_KeptRunPlain ==
  /\ Forwarded /\ req.raw.t = "plain" /\ upstream[1].data = req.raw

\* the Authorization values of the backend calls of the request at hand
CredentialsSent ==
  {calls[i].auth : i \in DOMAIN calls} \cup {upstream[i].auth : i \in DOMAIN upstream}

\* the credential of the request at hand did not verify
Unverified == Truthy(req.authorization) /\ req.user = UNDEF

\* C33: every backend call made for a request (the proxied call, each
\* fan-out call, the trainer check, the create call) carries the inbound
\* credential header unchanged when there is one, whether or not it
\* verified, and none when there is none: the gateway never strips,
\* replaces or invents a credential.
C33_CredentialForwardedUnchanged ==
  /\ [](CredentialsSent \subseteq {req.authorization})
  /\ [][pc # "idle" /\ pc' # "idle" => req'.authorization = req.authorization]_vars

\* the four calls of a dashboard go out with a credential that did not
\* verify
C33_Witness ==
  /\ pc = "await" /\ Len(calls) = 4 /\ Unverified
  /\ req.authorization = Bearer(<<"tBadSig">>)
  /\ \A i \in 1..4 : calls[i].auth = Bearer(<<"tBadSig">>)

\* trainer check and create call with the credential of the caller
C33_WitnessBooking ==
  /\ pc = "create" /\ Len(upstream) = 2
  /\ upstream[1].auth = Bearer(<<"tClientU2">>) /\ upstream[2].auth = Bearer(<<"tClientU2">>)

\* a proxied call with a credential that did not verify
C33_WitnessProxy ==
  /\ Forwarded /\ Unverified /\ upstream[1].auth = Bearer(<<"tBadSig">>)

\* calls without a credential for a caller that sent none
C33_WitnessNone ==
  /\ pc = "await" /\ Len(calls) = 4 /\ req.authorization = NoHeader
  /\ CredentialsSent = {UNDEF}

(***************************************************************************)
(* Configuration.                                                          *)
(***************************************************************************)
\* the limiter treats every request of the traffic after the step as it
\* did before it
LimitsAlike ==
  \A r \in Traffic(workload) :
    rateLimit(r, env', limiter', hits') = rateLimit(r, env, limiter, hits)

\* C34: configuration is consumed once at startup and not read again: no
\* later change of the environment (rate-limit window and ceiling,
\* operating-mode flag) changes how a later request is limited, and no step
\* of a request modifies the options built at startup.
C34_ConfigurationReadOnce ==
  [][/\ limiter' = limiter
     /\ env' # env => LimitsAlike]_vars

\* what the code keeps of C34: window and ceiling are read once, and a
\* change of the environment that leaves the operating mode as it was
\* changes nothing; the mode is read again for every request
C34_WindowAndCeilingReadOnce ==
  [][/\ limiter' = limiter
     /\ env' # env /\ skip(env') = skip(env) => LimitsAlike]_vars

\* the run that refutes C34: a gateway started in production has counted
\* its client up to the ceiling; the mode is then set to development and the
\* next request of that client passes, uncounted
C34_FailingRun ==
  /\ InDevelopment /\ UnderApi /\ pc = "verifyGlobal"
  /\ hits[req.ip] >= Ceiling /\ ~Counted

\* the reverse: started in development, then set to production, the gateway
\* denies
C34_FailingRunDenied ==
  /\ limiter = limiterConfig(Environment(Str("development"), Chars(<<"2">>)))
  /\ DeniedAdmission

\* the ceiling set anew in the environment is not taken up: the request
\* beyond the ceiling of the startup is denied
C34_CeilingKeptRun ==
  /\ Get(env, "RATE_LIMIT_MAX_REQUESTS") = Chars(<<"3">>) /\ Ceiling = 2
  /\ ~InDevelopment /\ DeniedAdmission

(***************************************************************************)
(* Requests handled side by side.                                          *)
(***************************************************************************)
\* another request is in flight beside the request at hand
Beside == req # NoRequest /\ parked.req # NoRequest

\* the identity attached to the request at hand is the claim set of the
\* credential it presented itself
OwnIdentity ==
  HasIdentity =>
    /\ \E t \in 0..now : CredentialPasses(req.authorization, t)
    /\ req.user = PresentedClaims

\* the identifier in the response header and on the proxied call is the
\* one generated for the request at hand, which no other request has
OwnCorrelation ==
  Identified =>
    /\ resHeaders["X-Correlation-ID"] = req.correlationId
    /\ Forwarded => upstream[1].correlation = req.correlationId
    /\ parked.req.correlationId # req.correlationId

\* the backend calls are made for the path id and with the credential of
\* the request at hand
OwnCalls ==
  /\ OnClient /\ Len(calls) = 4 =>
       [i \in 1..4 |-> [calls[i] EXCEPT !.status = "pending", !.body = UNDEF]]
         = ClientCalls(PathId, req.authorization)
  /\ OnBooking /\ Len(upstream) >= 1 =>
       /\ upstream[1].path = <<"api", "users", TemplateText(Get(req.raw, "trainer_id"))>>
       /\ \A i \in DOMAIN upstream : upstream[i].auth = req.authorization
  /\ Forwarded => upstream[1].path = req.path /\ upstream[1].auth = req.authorization

\* the access decision is taken on the identity and the path id of the
\* request at hand
OwnDecision ==
  /\ OnClient /\ Decided => (res.status = 403 <=> ClientForbidden(req.user, PathId))
  /\ OnTrainer /\ Decided => (res.status = 403 <=> TrainerForbidden(req.user, PathId))
  /\ OnAdmin /\ Decided => (res.status = 403 <=> AdminForbidden(req.user))

\* the response is made of the outcomes of the calls of the request at
\* hand
OwnResults ==
  /\ OnClient /\ Answered /\ Len(calls) = 4 => Succeeded /\ FieldsAsDocumented
  /\ OnBooking /\ Answered /\ Len(upstream) = 2 /\ IsSuccess(AnswerOf(2).status) =>
       res.body = AnswerOf(2).body
  /\ Forwarded /\ Answered /\ upstream[1].status = "answered" =>
       res.status = AnswerOf(1).status /\ res.body = AnswerOf(1).body

\* C35: under every interleaving of two requests handled side by side, the
\* identity, the correlation identifier, the path id and the fan-out
\* results used for the authorization decision, the backend calls and the
\* response of a request are its own, and a request that waits is found as
\* it was left when it goes on: what other requests do meanwhile changes
\* nothing of it.
C35_RequestsDoNotMix ==
  /\ [](OwnIdentity /\ OwnCorrelation /\ OwnCalls /\ OwnDecision /\ OwnResults)
  /\ [][IF parked' # parked
        THEN parked' = Running /\ Running' = parked
        ELSE TRUE]_vars

\* a client dashboard is answered from its own four calls while a booking
\* of another caller waits for its create call
C35_Witness ==
  /\ Beside /\ OnClient /\ Answered /\ Succeeded /\ Len(calls) = 4
  /\ calls[1].status = "fulfilled" /\ calls[2].status = "rejected"
  /\ req.user = TokenTable["tClientU1"].payload
  /\ parked.pc = "create" /\ parked.req.user = TokenTable["tClientU2"].payload
  /\ parked.req.correlationId # req.correlationId

\* two client dashboards in flight whose calls have settled differently
C35_WitnessTwoFanOuts ==
  /\ Beside /\ OnClient /\ pc = "await" /\ parked.pc = "await"
  /\ calls[1].status = "rejected" /\ parked.calls[1].status = "fulfilled"
  /\ calls[4].status = "pending" /\ parked.calls[4].status = "rejected"

\* a denied request beside a granted one
C35_WitnessDenied ==
  /\ Beside /\ OnAdmin /\ Denied /\ parked.pc = "await" /\ Len(parked.calls) = 4

(***************************************************************************)
(* The counts of the trainer dashboard.                                    *)
(***************************************************************************)
\* the programs call of the trainer dashboard at hand rejected, or
\* fulfilled with a list of programs
ProgramsCollected ==
  \/ calls[2].status = "rejected"
  \/ /\ calls[2].status = "fulfilled" /\ HasData(calls[2].body)
     /\ calls[2].body.o.data.t = "array"

\* the outcomes a call may settle with
Outcomes == {[status |-> "rejected", body |-> UNDEF]}
              \cup {[status |-> "fulfilled", body |-> b] : b \in Bodies}

\* the calls at hand with the fourth settled otherwise
WithFourth(o) == [calls EXCEPT ![4].status = o.status, ![4].body = o.body]

\* C36: on the trainer dashboard active_clients equals the number of
\* entries of recent_programs, which is the collected list of programs when
\* the programs call fulfilled and empty (count 0) when it rejected; the
\* outcome of the fourth call, the list of clients, has no influence on the
\* response.
C36_ActiveClientsCountsPrograms ==
  /\ OnTrainer /\ Answered /\ Len(calls) = 4 /\ Succeeded /\ ProgramsCollected =>
       /\ {"active_clients", "recent_programs"} \subseteq DOMAIN Payload
       /\ Payload.recent_programs.t = "array"
       /\ Payload.active_clients = Num(Len(Payload.recent_programs.a))
       /\ calls[2].status = "rejected" => Payload.recent_programs = Arr(<<>>)
       /\ calls[2].status = "fulfilled" => Payload.recent_programs = calls[2].body.o.data
  /\ OnTrainer /\ Answered /\ Len(calls) = 4 =>
       \E t \in 0..now :
         \A o \in Outcomes : res = TrainerAssemble(NoResponse, WithFourth(o), today, t)

\* five programs collected and counted while the list of clients failed
C36_Witness ==
  /\ OnTrainer /\ Answered /\ Succeeded /\ Len(calls) = 4
  /\ calls[2].status = "fulfilled" /\ calls[2].body = ListBody
  /\ calls[4].status = "rejected"
  /\ Payload.active_clients = Num(5) /\ Len(Payload.recent_programs.a) = 5

\* the programs call rejected: count 0 whatever the list of clients holds
C36_WitnessRejected ==
  /\ OnTrainer /\ Answered /\ Succeeded /\ Len(calls) = 4
  /\ calls[2].status = "rejected"
  /\ calls[4].status = "fulfilled" /\ calls[4].body = ListBody
  /\ Payload.active_clients = Num(0) /\ Payload.recent_programs = Arr(<<>>)

\* a list of clients that fulfilled with null does not fail the dashboard
C36_WitnessNull ==
  /\ OnTrainer /\ Answered /\ Succeeded /\ Len(calls) = 4
  /\ calls[4].status = "fulfilled" /\ calls[4].body = NULL

(***************************************************************************)
(* One response for each request.                                          *)
(***************************************************************************)
\* the codes of the failure envelopes the gateway sends
ErrorCode ==
  IF res.body.t = "object" /\ "error" \in DOMAIN res.body.o
       /\ res.body.o.error.t = "object" /\ "code" \in DOMAIN res.body.o.error.o
  THEN res.body.o.error.o.code
  ELSE UNDEF

\* C37: every request receives exactly one response.  On no path (denial
\* of the limiter, FORBIDDEN, dashboard success or error, INVALID_TRAINER,
\* booking pass-through or BOOKING_FAILED, proxy success or 502, not found,
\* internal error) is a second response sent, and once the response is sent
\* no middleware or handler runs for the request any more.
C37_ExactlyOneResponse ==
  /\ [](/\ res.sent <= 1
        /\ pc = "done" <=> res.sent = 1
        /\ pc # "stalled"
        /\ \A i \in DOMAIN nextLog : nextLog[i].nexts = 1 /\ nextLog[i].sent = 0)
  /\ [][res.sent = 1 =>
          \/ /\ pc' = "done" /\ res' = res /\ req' = req /\ nextLog' = nextLog
             /\ calls' = calls /\ upstream' = upstream /\ resHeaders' = resHeaders
          \/ pc' = "idle" /\ res' = NoResponse /\ req' = NoRequest]_vars

\* the answers of the paths the claim names
C37_Witness == Answered /\ ErrorCode = Str("RATE_LIMIT_EXCEEDED") /\ res.status = 429

C37_WitnessForbidden == Answered /\ OnDashboard /\ ErrorCode = Str("FORBIDDEN")

C37_WitnessDashboard == Answered /\ OnDashboard /\ Succeeded /\ Len(calls) = 4

C37_WitnessDashboardError == Answered /\ OnDashboard /\ ErrorCode = Str("DASHBOARD_ERROR")

C37_WitnessInvalidTrainer == Answered /\ OnBooking /\ ErrorCode = Str("INVALID_TRAINER")

C37_WitnessBookingPassThrough ==
  Answered /\ OnBooking /\ Len(upstream) = 2 /\ res.status = 409

C37_WitnessBookingFailed == Answered /\ OnBooking /\ ErrorCode = Str("BOOKING_FAILED")

C37_WitnessProxy == Answered /\ Forwarded /\ upstream[1].status = "answered"

C37_WitnessUnavailable == Answered /\ Forwarded /\ res.status = 502

C37_WitnessNotFound == Answered /\ ErrorCode = Str("NOT_FOUND")

C37_WitnessInternalError == Answered /\ ErrorCode = Str("INTERNAL_ERROR")

(***************************************************************************)
(* Progress.                                                               *)
(***************************************************************************)
\* the request at hand has come in and has no response yet
Unanswered == req # NoRequest /\ res.sent = 0

\* C38: if every backend call issued for a request settles, fulfilled or
\* rejected, the request receives its response: the gateway waits for
\* nothing but the settlement of the calls it issued, and no dashboard or
\* validated-booking request stays pending once its calls have settled.
C38_AnsweredOnceCallsSettle == Unanswered ~> Answered

\* the four calls of a dashboard have settled, one of them rejected, and
\* the response is due
C38_Witness ==
  /\ OnDashboard /\ pc = "await" /\ Unanswered /\ Settled(calls)
  /\ \E i \in 1..4 : calls[i].status = "rejected"

\* a booking that waits for its create call
C38_WitnessBooking == OnBooking /\ pc = "create" /\ Unanswered

(***************************************************************************)
(* Identities without a known role.                                        *)
(***************************************************************************)
\* the identity of the request at hand carries no role, or a role that is
\* none of client, trainer and admin
OtherRole ==
  HasIdentity /\ ~RoleIs("client") /\ ~RoleIs("trainer") /\ ~RoleIs("admin")

\* C39: a verified identity that carries no role claim, or a role other
\* than client, trainer and admin, is never denied on the client and
\* trainer dashboards, whatever the path id, and is always denied with
\* FORBIDDEN on the admin dashboard.
C39_OtherRolesPassButNotAdmin ==
  OtherRole /\ Decided =>
    /\ OnClient \/ OnTrainer => res.status # 403 /\ FannedOut
    /\ OnAdmin => Denied

\* an identity without a role is granted the client dashboard of another
\* subject
C39_Witness ==
  /\ OtherRole /\ "role" \notin DOMAIN req.user.o
  /\ OnClient /\ Decided /\ PathId # SubjectId /\ FannedOut /\ Succeeded

\* a manager is granted the trainer dashboard of another subject
C39_WitnessTrainer ==
  /\ RoleIs("manager") /\ OnTrainer /\ Decided /\ PathId # SubjectId /\ FannedOut

\* a manager and an identity without a role are denied the admin dashboard
C39_WitnessAdmin == RoleIs("manager") /\ OnAdmin /\ Denied

C39_WitnessAdminNoRole ==
  OtherRole /\ "role" \notin DOMAIN req.user.o /\ OnAdmin /\ Denied

(***************************************************************************)
(* The annotator applied twice.                                            *)
(***************************************************************************)
\* the request at hand as it reaches the annotator for the first time
AsArrived == [req EXCEPT !.user = UNDEF]

\* the annotator applied to r at clock reading t, and again to what that
\* leaves at clock reading u
Twice(r, t, u) == verifyToken([r EXCEPT !.user = verifyToken(r, t).user], u)

\* both applications of the annotator to the request at hand are over
AppliedTwice == OnDashboard /\ Len(nextLog) = 2

C40_WitnessVerifiedTwice ==
  /\ AppliedTwice /\ pc = "handler"
  /\ nextLog[1].outcome = "verified" /\ nextLog[2].outcome = "verified"
  /\ req.user = TokenTable["tNoRoleU1"].payload

\* no credential: skipped twice, no identity
C40_WitnessAbsent ==
  /\ AppliedTwice /\ pc = "handler" /\ req.authorization = NoHeader
  /\ nextLog[1].outcome = "skipped" /\ nextLog[2].outcome = "skipped" /\ req.user = UNDEF

====
